---- MODULE Spec2Model ----
(***************************************************************************)
(* A model of the photo-processor repository: the face-position guidance   *)
(* calculator (web: FaceDetectionWeb.calculateGuidance, native: the iOS    *)
(* and Android FaceDetectionPlugin.calculateGuidance), the size-targeting  *)
(* compressor (ImageProcessingService.compressImage), the FaceDetection    *)
(* plugin with the calls made on it (web, iOS, Android), background        *)
(* removal (ImageProcessingService.removeBackground over the               *)
(* BackgroundRemoval plugins) and the page component (HomePage: camera,    *)
(* detection loop, capture pipeline).  Each machine has its own            *)
(* specification; the variables of the others are pinned by its initial    *)
(* predicate.                                                              *)
(*                                                                         *)
(* Numbers.  The source computes on IEEE doubles.  The model computes on   *)
(* exact rationals held as integers:                                       *)
(*   - normalized coordinates are given in hundredths (0.32 is 32) and     *)
(*     converted to units of 1/20000 (Unit), so that every padding         *)
(*     (a percentage of a hundredth) and every midpoint is an integer;     *)
(*   - a size ratio a/b is compared with a threshold t% as 100*a ? t*b     *)
(*     (b > 0: the ovals drawn have positive radii);                       *)
(*   - an encoder quality is held in units of 1/25600, so that the eight   *)
(*     halvings the search can make from 0.10, 0.70 and 0.95 are exact.    *)
(***************************************************************************)
EXTENDS Integers, Sequences, FiniteSets, TLC

VARIABLES
    \* ---- guidance calculator (one invocation) ----
    face,       \* FaceBounds  [x, y, width, height], hundredths
    oval,       \* OvalBounds  [centerX, centerY, radiusX, radiusY], hundredths
    platform,   \* which implementation ran: "none", "web", "ios", "android"
    guidance,   \* the FaceGuidance returned ("none" before the call)
    gpc,        \* "idle", "input" before the call, "done" after it
    \* ---- compressImage (one invocation) ----
    cpc,            \* where the invocation stands: "idle", "loadImage",
                    \* "canvasToBlob", "blobToDataUrl", "resolved", "rejected"
    targetSizeKB,   \* the argument
    encoder,        \* the behaviour of canvas.toBlob (see Encoders)
    i,              \* the loop counter
    minQuality,     \* units of 1/25600
    maxQuality,
    quality,
    bestBlob,       \* 0 for null, else the index in blobs of the blob held
    blobs,          \* every blob the encoder produced: [quality, size], in order
    calls,          \* the number of canvasToBlob calls made
    result,         \* the ProcessedImage resolved with: [blob, size], or NoResult
    error,          \* the message rejected with, "" if none
    \* ---- the FaceDetection plugin and the calls made on it ----
    fdPlatform,     \* "none", "web", "ios", "android"
    model,          \* web: "null" or "loaded" (FaceDetectionWeb.model)
    isInitializing, \* web: FaceDetectionWeb.isInitializing
    scriptsLoaded,  \* web: FaceDetectionWeb.scriptsLoaded
    isInitialized,  \* iOS: FaceDetectionPlugin.isInitialized
    detector,       \* Android: "null" or "client" (FaceDetectionPlugin.detector)
    fdCalls,        \* the calls made so far, in the order they were made
    disposals,      \* history: the number of dispose() calls that have resolved
    loadedBy,       \* history: the call whose load set the model held, 0 if none
    envFailed,      \* history: a load, a wait or the detector has failed
    \* ---- ImageProcessingService.removeBackground (one invocation) ----
    rbPlatform,     \* "none", "web", "ios", "android"
    rbpc,           \* "idle", "called", "loading", "processing", "settled", "returned"
    rbOptions,      \* [imageData, useEllipticalMask] passed to the plugin
    rbPlugin,       \* what the plugin call settled with
    rbService,      \* what the service's promise settled with
    \* ---- compressImage invoked twice with the same arguments ----
    invocation,     \* 0: a single invocation; else 1 or 2, the one running
    firstBlobs,     \* the blobs the encoder produced for the first invocation
    firstOutcome,   \* how the first invocation settled: [cpc, result, error]
    \* ---- HomePage (one component instance) ----
    hpc,            \* lifecycle: "idle", "constructed", "active", "destroyed"
    hpPlatform,     \* Capacitor.isNativePlatform(): "none", "web", "native"
    hp,             \* the fields of the component, under their source names
    initialize,     \* the FaceDetection.initialize() call of the constructor
    cameras,        \* one entry per startCamera call, in order (see NewCamera)
    requests,       \* one entry per detectFace request issued, in order
    captures        \* one entry per captureAndProcess invocation, in order

gvars == <<face, oval, platform, guidance, gpc>>
cvars == <<cpc, targetSizeKB, encoder, i, minQuality, maxQuality, quality,
           bestBlob, blobs, calls, result, error>>
fvars == <<fdPlatform, model, isInitializing, scriptsLoaded, isInitialized,
           detector, fdCalls, disposals, loadedBy, envFailed>>
\* The variables of the machines added after the calculator and the compressor.
rvars == <<rbPlatform, rbpc, rbOptions, rbPlugin, rbService>>
tvars == <<invocation, firstBlobs, firstOutcome>>
hvars == <<hpc, hpPlatform, hp, initialize, cameras, requests, captures>>
xvars == <<fvars, rvars, tvars, hvars>>
vars == <<gvars, cvars, xvars>>

(***************************************************************************)
(* Bounds of the input grid of the guidance calculator.                    *)
(***************************************************************************)
GridStep == 5
MaxPosCell == 17
MaxSizeCell == 18

\* x and y from -0.10, width and height from 0.05, in steps of 0.05.
Positions == {GridStep * k : k \in -2..MaxPosCell}
Extents == {GridStep * k : k \in 1..MaxSizeCell}

Faces == [x : Positions, y : Positions, width : Extents, height : Extents]

\* The oval the page passes (home.page.ts ovalBounds), a wide one and a small one.
PageOval == [centerX |-> 50, centerY |-> 50, radiusX |-> 32, radiusY |-> 42]
WideOval == [centerX |-> 50, centerY |-> 50, radiusX |-> 42, radiusY |-> 32]
SmallOval == [centerX |-> 50, centerY |-> 40, radiusX |-> 25, radiusY |-> 30]
Ovals == {PageOval, WideOval, SmallOval}

Max(a, b) == IF a >= b THEN a ELSE b
Abs(a) == IF a >= 0 THEN a ELSE -a

\* hundredths -> units of 1/20000
Unit(p) == 200 * p

(***************************************************************************)
(* FaceDetectionWeb.calculateGuidance                                      *)
(***************************************************************************)
headPaddingTop(f) == 2 * f.height * 40
headPaddingBottom(f) == 2 * f.height * 8
headPaddingSide(f) == 2 * f.width * 10

faceLeft(f) == Unit(f.x) - headPaddingSide(f)
faceRight(f) == Unit(f.x) + Unit(f.width) + headPaddingSide(f)
faceTop(f) == Unit(f.y) - headPaddingTop(f)
faceBottom(f) == Unit(f.y) + Unit(f.height) + headPaddingBottom(f)

\* (faceLeft + faceRight) / 2: the sum is even for the paddings above; the
\* division rounds down otherwise.
faceCenterX(f) == (faceLeft(f) + faceRight(f)) \div 2
faceCenterY(f) == (faceTop(f) + faceBottom(f)) \div 2

ovalLeft(o) == Unit(o.centerX) - Unit(o.radiusX)
ovalRight(o) == Unit(o.centerX) + Unit(o.radiusX)
ovalTop(o) == Unit(o.centerY) - Unit(o.radiusY)
ovalBottom(o) == Unit(o.centerY) + Unit(o.radiusY)

headWidth(f) == faceRight(f) - faceLeft(f)
headHeight(f) == faceBottom(f) - faceTop(f)
headSize(f) == Max(headWidth(f), headHeight(f))
ovalSize(o) == Max(Unit(o.radiusX) * 2, Unit(o.radiusY) * 2)

\* Mutant: the lower threshold of the native calculators (0.5).
tooSmallMut(f, o) == 100 * headSize(f) < 50 * ovalSize(o)
\* sizeRatio < 0.8
tooSmall(f, o) == 100 * headSize(f) < 80 * ovalSize(o)
\* sizeRatio > 1.15
tooLarge(f, o) == 100 * headSize(f) > 115 * ovalSize(o)

leftOverflow(f, o) == ovalLeft(o) - faceLeft(f)
rightOverflow(f, o) == faceRight(f) - ovalRight(o)
topOverflow(f, o) == ovalTop(o) - faceTop(f)
bottomOverflow(f, o) == faceBottom(f) - ovalBottom(o)

\* Mutant: the horizontal directions exchanged.
overflowsMut(f, o) ==
    << [value |-> leftOverflow(f, o), guidance |-> "move_left"],
       [value |-> rightOverflow(f, o), guidance |-> "move_right"],
       [value |-> topOverflow(f, o), guidance |-> "move_down"],
       [value |-> bottomOverflow(f, o), guidance |-> "move_up"] >>

overflows(f, o) ==
    << [value |-> leftOverflow(f, o), guidance |-> "move_right"],
       [value |-> rightOverflow(f, o), guidance |-> "move_left"],
       [value |-> topOverflow(f, o), guidance |-> "move_down"],
       [value |-> bottomOverflow(f, o), guidance |-> "move_up"] >>

\* The comparator of overflows.sort: (a, b) => b.value - a.value
compareOverflow(a, b) == b.value - a.value

\* Mutant: an unstable sort, equal elements end in reverse order.
RECURSIVE insertSortedMut(_, _)
insertSortedMut(s, x) ==
    IF s = << >> THEN << x >>
    ELSE IF compareOverflow(Head(s), x) >= 0 THEN << x >> \o s
    ELSE << Head(s) >> \o insertSortedMut(Tail(s), x)

\* Array.prototype.sort is stable: x goes before the first element that the
\* comparator orders strictly after it, elements taken in their original order.
RECURSIVE insertSorted(_, _)
insertSorted(s, x) ==
    IF s = << >> THEN << x >>
    ELSE IF compareOverflow(Head(s), x) > 0 THEN << x >> \o s
    ELSE << Head(s) >> \o insertSorted(Tail(s), x)

RECURSIVE sortOverflows(_)
sortOverflows(s) ==
    IF s = << >> THEN << >>
    ELSE insertSorted(sortOverflows(SubSeq(s, 1, Len(s) - 1)), s[Len(s)])

centerThreshold == Unit(15)

xOffset(f, o) == Abs(faceCenterX(f) - Unit(o.centerX))
yOffset(f, o) == Abs(faceCenterY(f) - Unit(o.centerY))

\* Mutant: the axis comparison with its operands exchanged.
centerGuidanceMut(f, o) ==
    IF xOffset(f, o) > centerThreshold \/ yOffset(f, o) > centerThreshold
    THEN IF xOffset(f, o) > yOffset(f, o)
         THEN (IF faceCenterY(f) < Unit(o.centerY) THEN "move_down" ELSE "move_up")
         ELSE (IF faceCenterX(f) < Unit(o.centerX) THEN "move_right" ELSE "move_left")
    ELSE "hold_still"

centerGuidance(f, o) ==
    IF xOffset(f, o) > centerThreshold \/ yOffset(f, o) > centerThreshold
    THEN IF yOffset(f, o) > xOffset(f, o)
         THEN (IF faceCenterY(f) < Unit(o.centerY) THEN "move_down" ELSE "move_up")
         ELSE (IF faceCenterX(f) < Unit(o.centerX) THEN "move_right" ELSE "move_left")
    ELSE "hold_still"

calculateGuidance(f, o) ==
    IF tooSmall(f, o) THEN "move_closer"
    ELSE IF tooLarge(f, o) THEN "move_back"
    ELSE LET sorted == sortOverflows(overflows(f, o))
         IN IF sorted[1].value > 0 THEN sorted[1].guidance
            ELSE centerGuidance(f, o)

(***************************************************************************)
(* FaceDetectionPlugin.calculateGuidance (iOS, Swift)                      *)
(***************************************************************************)
iosFaceCenterX(f) == Unit(f.x) + Unit(f.width) \div 2
iosFaceCenterY(f) == Unit(f.y) + Unit(f.height) \div 2
iosPositionThreshold == Unit(8)
iosFaceSize(f) == Max(Unit(f.width), Unit(f.height))
iosOvalSize(o) == Max(Unit(o.radiusX) * 2, Unit(o.radiusY) * 2)
\* sizeRatio < 0.5
iosTooSmall(f, o) == 10 * iosFaceSize(f) < 5 * iosOvalSize(o)
\* sizeRatio > 1.1
iosTooLarge(f, o) == 10 * iosFaceSize(f) > 11 * iosOvalSize(o)
iosXOffset(f, o) == iosFaceCenterX(f) - Unit(o.centerX)
iosYOffset(f, o) == iosFaceCenterY(f) - Unit(o.centerY)

iosCalculateGuidance(f, o) ==
    IF iosTooSmall(f, o) THEN "move_closer"
    ELSE IF iosTooLarge(f, o) THEN "move_back"
    ELSE IF iosXOffset(f, o) < -iosPositionThreshold THEN "move_right"
    ELSE IF iosXOffset(f, o) > iosPositionThreshold THEN "move_left"
    ELSE IF iosYOffset(f, o) < -iosPositionThreshold THEN "move_down"
    ELSE IF iosYOffset(f, o) > iosPositionThreshold THEN "move_up"
    ELSE "hold_still"

(***************************************************************************)
(* The Android guidance calculator (FaceDetectionPlugin.calculateGuidance  *)
(* of the Kotlin plugin).                                                  *)
(***************************************************************************)
androidCalculateGuidance(f, o) ==
    LET faceCenterX_ == Unit(f.x) + Unit(f.width) \div 2
        faceCenterY_ == Unit(f.y) + Unit(f.height) \div 2
        positionThreshold == Unit(8)
        faceSize == Max(Unit(f.width), Unit(f.height))
        ovalSize_ == Max(Unit(o.radiusX) * 2, Unit(o.radiusY) * 2)
        xOffset_ == faceCenterX_ - Unit(o.centerX)
        yOffset_ == faceCenterY_ - Unit(o.centerY)
    IN  \* sizeRatio < 0.5, sizeRatio > 1.1
        IF 10 * faceSize < 5 * ovalSize_ THEN "move_closer"
        ELSE IF 10 * faceSize > 11 * ovalSize_ THEN "move_back"
        ELSE IF xOffset_ < -positionThreshold THEN "move_right"
        ELSE IF xOffset_ > positionThreshold THEN "move_left"
        ELSE IF yOffset_ < -positionThreshold THEN "move_down"
        ELSE IF yOffset_ > positionThreshold THEN "move_up"
        ELSE "hold_still"

(***************************************************************************)
(* The guidance calculator as a state machine: the inputs are drawn in     *)
(* GuidanceInit and one of the implementations is applied to them.         *)
(***************************************************************************)
NoResult == [blob |-> 0, size |-> 0]
NoEncoder == [kind |-> "none"]

\* No FaceDetection plugin.
FaceDetectionIdle ==
    /\ fdPlatform = "none"
    /\ model = "null"
    /\ isInitializing = FALSE
    /\ scriptsLoaded = FALSE
    /\ isInitialized = FALSE
    /\ detector = "null"
    /\ fdCalls = << >>
    /\ disposals = 0
    /\ loadedBy = 0
    /\ envFailed = FALSE

\* No removeBackground invocation.
RemovalIdle ==
    /\ rbPlatform = "none"
    /\ rbpc = "idle"
    /\ rbOptions = [none |-> TRUE]
    /\ rbPlugin = [status |-> "pending"]
    /\ rbService = [status |-> "pending"]

\* No second compressImage invocation to compare with.
TwiceIdle ==
    /\ invocation = 0
    /\ firstBlobs = << >>
    /\ firstOutcome = [cpc |-> "none", result |-> NoResult, error |-> ""]

\* No page component.
HomePageIdle ==
    /\ hpc = "idle"
    /\ hpPlatform = "none"
    /\ hp = [none |-> TRUE]
    /\ initialize = "none"
    /\ cameras = << >>
    /\ requests = << >>
    /\ captures = << >>

\* No compressImage invocation.
CompressIdle ==
    /\ cpc = "idle"
    /\ targetSizeKB = 0
    /\ encoder = NoEncoder
    /\ i = 0
    /\ minQuality = 0
    /\ maxQuality = 0
    /\ quality = 0
    /\ bestBlob = 0
    /\ blobs = << >>
    /\ calls = 0
    /\ result = NoResult
    /\ error = ""

GuidanceInit ==
    /\ CompressIdle
    /\ FaceDetectionIdle
    /\ RemovalIdle
    /\ TwiceIdle
    /\ HomePageIdle
    /\ face \in Faces
    /\ oval \in Ovals
    /\ platform = "none"
    /\ guidance = "none"
    /\ gpc = "input"

CalculateGuidanceWeb ==
    /\ gpc = "input"
    /\ guidance' = calculateGuidance(face, oval)
    /\ platform' = "web"
    /\ gpc' = "done"
    /\ UNCHANGED <<face, oval, cvars, xvars>>

CalculateGuidanceIOS ==
    /\ gpc = "input"
    /\ guidance' = iosCalculateGuidance(face, oval)
    /\ platform' = "ios"
    /\ gpc' = "done"
    /\ UNCHANGED <<face, oval, cvars, xvars>>

CalculateGuidanceAndroid ==
    /\ gpc = "input"
    /\ guidance' = androidCalculateGuidance(face, oval)
    /\ platform' = "android"
    /\ gpc' = "done"
    /\ UNCHANGED <<face, oval, cvars, xvars>>

GuidanceNext == CalculateGuidanceWeb \/ CalculateGuidanceIOS \/ CalculateGuidanceAndroid

SpecGuidance == GuidanceInit /\ [][GuidanceNext]_vars

(***************************************************************************)
(* ImageProcessingService.compressImage                                    *)
(***************************************************************************)
\* Qualities in units of 1/25600: 0.10, 0.95 and 0.70.
initialMinQuality == 2560
initialMaxQuality == 24320
initialQuality == 17920
\* Mutants: one iteration fewer, one more.
maxIterationsLess == 8 - 1
maxIterationsMore == 8 + 1
maxIterations == 8
tolerance == 1024

targetBytes == targetSizeKB * 1024

TargetSizesKB == {5, 10}

\* canvas.toBlob hands the callback a blob or null.
NullBlob == -1

(***************************************************************************)
(* Encoders.  "any": every call may produce a blob of any of the sizes     *)
(* target + d, d in AnyDeltas, or no blob.  "step": a deterministic        *)
(* encoder whose size is non-decreasing in the quality: below the target   *)
(* for q < lo, within the tolerance for lo <= q <= hi, above it for        *)
(* q > hi (hi < lo: no quality is within the tolerance).                   *)
(***************************************************************************)
BreakStep == 73
BreakPoints ==
    {q \in initialMinQuality..initialMaxQuality : (q - initialMinQuality) % BreakStep = 0}
GoodWidths == {-1, 0, 119, 120, 127, 128, 4000}
AnyDeltas == {-3000, -1024, -1023, 0, 1024}

StepEncoders == {[kind |-> "step", lo |-> l, hi |-> l + w] : l \in BreakPoints, w \in GoodWidths}
Encoders == {[kind |-> "any"]} \cup StepEncoders

\* "fixed": a deterministic encoder that hands the same blob size, or no
\* blob, whatever the quality.
FixedEncoders ==
    {[kind |-> "fixed", size |-> sz] :
        sz \in {NullBlob} \cup {kb * 1024 + d : kb \in TargetSizesKB, d \in AnyDeltas}}

stepSize(e, q) ==
    IF q < e.lo THEN targetBytes - 3000
    ELSE IF q <= e.hi THEN targetBytes + 500
    ELSE targetBytes + 3000

\* What canvas.toBlob may hand the callback for the current quality.
encoderOutputs ==
    IF encoder.kind = "step" THEN {stepSize(encoder, quality)}
    ELSE IF encoder.kind = "fixed" THEN {encoder.size}
    ELSE {targetBytes + d : d \in AnyDeltas} \cup {NullBlob}

CompressInit ==
    /\ FaceDetectionIdle
    /\ RemovalIdle
    /\ TwiceIdle
    /\ HomePageIdle
    /\ face = [x |-> 0, y |-> 0, width |-> 0, height |-> 0]
    /\ oval = PageOval
    /\ platform = "none"
    /\ guidance = "none"
    /\ gpc = "idle"
    /\ cpc = "loadImage"
    /\ targetSizeKB \in TargetSizesKB
    /\ encoder \in Encoders
    /\ i = 0
    /\ minQuality = 0
    /\ maxQuality = 0
    /\ quality = 0
    /\ bestBlob = 0
    /\ blobs = << >>
    /\ calls = 0
    /\ result = NoResult
    /\ error = ""

\* await this.loadImage(dataUrl) rejects (img.onerror).
LoadImageRejected ==
    /\ cpc = "loadImage"
    /\ cpc' = "rejected"
    /\ error' = "image load error"
    /\ UNCHANGED <<gvars, xvars, targetSizeKB, encoder, i, minQuality, maxQuality, quality,
                   bestBlob, blobs, calls, result>>

\* loadImage resolves and canvas.getContext('2d') returns null.
GetContextFailed ==
    /\ cpc = "loadImage"
    /\ cpc' = "rejected"
    /\ error' = "Could not get canvas context"
    /\ UNCHANGED <<gvars, xvars, targetSizeKB, encoder, i, minQuality, maxQuality, quality,
                   bestBlob, blobs, calls, result>>

\* Mutant: the quality is kept from one invocation to the next.
LoadImageResolvedKeepsQuality ==
    /\ cpc = "loadImage"
    /\ minQuality' = initialMinQuality
    /\ maxQuality' = initialMaxQuality
    /\ quality' = IF quality = 0 THEN initialQuality ELSE quality
    /\ bestBlob' = 0
    /\ i' = 0
    /\ cpc' = "canvasToBlob" /\ calls' = calls + 1 /\ error' = error
    /\ UNCHANGED <<gvars, xvars, targetSizeKB, encoder, blobs, result>>

\* loadImage resolves, the canvas is drawn, the search variables are set and
\* the first iteration calls canvasToBlob.
LoadImageResolved ==
    /\ cpc = "loadImage"
    /\ minQuality' = initialMinQuality
    /\ maxQuality' = initialMaxQuality
    /\ quality' = initialQuality
    /\ bestBlob' = 0
    /\ i' = 0
    /\ IF 0 < maxIterations
       THEN cpc' = "canvasToBlob" /\ calls' = calls + 1 /\ error' = error
       ELSE cpc' = "rejected" /\ calls' = calls /\ error' = "Failed to compress image"
    /\ UNCHANGED <<gvars, xvars, targetSizeKB, encoder, blobs, result>>

\* canvas.toBlob hands null: canvasToBlob rejects with 'Failed to create blob'
\* and compressImage rejects with it.
CanvasToBlobFailed ==
    /\ cpc = "canvasToBlob"
    /\ NullBlob \in encoderOutputs
    /\ cpc' = "rejected"
    /\ error' = "Failed to create blob"
    /\ UNCHANGED <<gvars, xvars, targetSizeKB, encoder, i, minQuality, maxQuality, quality,
                   bestBlob, blobs, calls, result>>

withinTolerance(size) == Abs(size - targetBytes) < tolerance

\* The statements after the loop: throw when no blob is held, else call blobToDataUrl.
afterLoop(best) ==
    IF best = 0
    THEN cpc' = "rejected" /\ error' = "Failed to compress image"
    ELSE cpc' = "blobToDataUrl" /\ error' = error

\* Mutant: the break is missing, the search goes on after a blob within the tolerance.
CanvasToBlobWithinToleranceNoBreak ==
    /\ cpc = "canvasToBlob"
    /\ \E size \in encoderOutputs \ {NullBlob} :
        /\ withinTolerance(size)
        /\ blobs' = Append(blobs, [quality |-> quality, size |-> size])
        /\ bestBlob' = Len(blobs) + 1
        /\ quality' = IF size > targetBytes THEN (minQuality + quality) \div 2
                                            ELSE (maxQuality + quality) \div 2
        /\ minQuality' = IF size > targetBytes THEN minQuality ELSE quality
        /\ maxQuality' = IF size > targetBytes THEN quality ELSE maxQuality
        /\ i' = i + 1
        /\ IF i + 1 < 8
           THEN cpc' = "canvasToBlob" /\ calls' = calls + 1 /\ error' = error
           ELSE cpc' = "blobToDataUrl" /\ calls' = calls /\ error' = error
    /\ UNCHANGED <<gvars, xvars, targetSizeKB, encoder, result>>

\* A blob within the tolerance: it is kept and the loop is left (break).
CanvasToBlobWithinTolerance ==
    /\ cpc = "canvasToBlob"
    /\ \E size \in encoderOutputs \ {NullBlob} :
        /\ withinTolerance(size)
        /\ blobs' = Append(blobs, [quality |-> quality, size |-> size])
        /\ bestBlob' = Len(blobs) + 1
        /\ afterLoop(Len(blobs) + 1)
    /\ UNCHANGED <<gvars, xvars, targetSizeKB, encoder, i, minQuality, maxQuality, quality,
                   calls, result>>

\* Mutant: the test for "no blob held yet" is missing.
keepBestNoNullTest(best, bs, size) ==
    IF best # 0 /\ Abs(size - targetBytes) < Abs(bs[best].size - targetBytes)
    THEN Len(bs) + 1
    ELSE best

\* Mutant: the latest of equally close blobs is kept.
keepBestMut(best, bs, size) ==
    IF best = 0 \/ Abs(size - targetBytes) <= Abs(bs[best].size - targetBytes)
    THEN Len(bs) + 1
    ELSE best

\* "Always keep the best result so far": the index held after a blob of this size.
keepBest(best, bs, size) ==
    IF best = 0 \/ Abs(size - targetBytes) < Abs(bs[best].size - targetBytes)
    THEN Len(bs) + 1
    ELSE best

\* Mutant: the quality moves by half the range instead of to the midpoint.
adjustHalfRange(size) ==
    IF size > targetBytes
    THEN <<minQuality, quality, quality - (maxQuality - minQuality) \div 2>>
    ELSE <<quality, maxQuality, quality + (maxQuality - minQuality) \div 2>>

\* The binary search adjustment: <<minQuality, maxQuality, quality>> after a blob.
adjust(size) ==
    IF size > targetBytes
    THEN <<minQuality, quality, (minQuality + quality) \div 2>>
    ELSE <<quality, maxQuality, (maxQuality + quality) \div 2>>

\* A blob outside the tolerance: best, the search bounds and i are updated.
outsideUpdate(size) ==
    /\ ~withinTolerance(size)
    /\ blobs' = Append(blobs, [quality |-> quality, size |-> size])
    /\ bestBlob' = keepBest(bestBlob, blobs, size)
    /\ minQuality' = adjust(size)[1]
    /\ maxQuality' = adjust(size)[2]
    /\ quality' = adjust(size)[3]
    /\ i' = i + 1

\* ... and the next iteration calls canvasToBlob again.
CanvasToBlobIterate ==
    /\ cpc = "canvasToBlob"
    /\ i + 1 < maxIterations
    /\ \E size \in encoderOutputs \ {NullBlob} : outsideUpdate(size)
    /\ cpc' = "canvasToBlob"
    /\ calls' = calls + 1
    /\ UNCHANGED <<gvars, xvars, targetSizeKB, encoder, result, error>>

\* ... and that was the last iteration: the loop ends.
CanvasToBlobExhausted ==
    /\ cpc = "canvasToBlob"
    /\ ~(i + 1 < maxIterations)
    /\ \E size \in encoderOutputs \ {NullBlob} :
        /\ outsideUpdate(size)
        /\ afterLoop(keepBest(bestBlob, blobs, size))
    /\ UNCHANGED <<gvars, xvars, targetSizeKB, encoder, calls, result>>

\* blobToDataUrl(bestBlob) resolves: compressImage resolves with the blob held.
BlobToDataUrlResolved ==
    /\ cpc = "blobToDataUrl"
    /\ result' = [blob |-> bestBlob, size |-> blobs[bestBlob].size]
    /\ cpc' = "resolved"
    /\ UNCHANGED <<gvars, xvars, targetSizeKB, encoder, i, minQuality, maxQuality, quality,
                   bestBlob, blobs, calls, error>>

\* blobToDataUrl rejects (reader.onerror).
BlobToDataUrlRejected ==
    /\ cpc = "blobToDataUrl"
    /\ cpc' = "rejected"
    /\ error' = "file reader error"
    /\ UNCHANGED <<gvars, xvars, targetSizeKB, encoder, i, minQuality, maxQuality, quality,
                   bestBlob, blobs, calls, result>>

CompressNext ==
    \/ LoadImageRejected
    \/ GetContextFailed
    \/ LoadImageResolved
    \/ CanvasToBlobFailed
    \/ CanvasToBlobWithinTolerance
    \/ CanvasToBlobIterate
    \/ CanvasToBlobExhausted
    \/ BlobToDataUrlResolved
    \/ BlobToDataUrlRejected

SpecCompress == CompressInit /\ [][CompressNext]_vars

\* Every pending promise (image load, encoder call, data-URL read) settles.
FairSpecCompress == SpecCompress /\ WF_vars(CompressNext)

(***************************************************************************)
(* compressImage invoked twice with the same image and target and an       *)
(* encoder that maps every quality to the same blob.  The search variables *)
(* are locals: the second invocation declares its own.                     *)
(***************************************************************************)
CompressTwiceInit ==
    /\ FaceDetectionIdle
    /\ RemovalIdle
    /\ HomePageIdle
    /\ face = [x |-> 0, y |-> 0, width |-> 0, height |-> 0]
    /\ oval = PageOval
    /\ platform = "none"
    /\ guidance = "none"
    /\ gpc = "idle"
    /\ cpc = "loadImage"
    /\ targetSizeKB \in TargetSizesKB
    /\ encoder \in StepEncoders \cup FixedEncoders
    /\ i = 0
    /\ minQuality = 0
    /\ maxQuality = 0
    /\ quality = 0
    /\ bestBlob = 0
    /\ blobs = << >>
    /\ calls = 0
    /\ result = NoResult
    /\ error = ""
    /\ invocation = 1
    /\ firstBlobs = << >>
    /\ firstOutcome = [cpc |-> "none", result |-> NoResult, error |-> ""]

\* The first invocation has settled; compressImage is invoked again.
CompressAgain ==
    /\ invocation = 1
    /\ cpc \in {"resolved", "rejected"}
    /\ firstBlobs' = blobs
    /\ firstOutcome' = [cpc |-> cpc, result |-> result, error |-> error]
    /\ invocation' = 2
    /\ cpc' = "loadImage"
    /\ blobs' = << >>
    /\ calls' = 0
    /\ result' = NoResult
    /\ error' = ""
    /\ UNCHANGED <<gvars, fvars, rvars, hvars, targetSizeKB, encoder, i, minQuality, maxQuality,
                   quality, bestBlob>>

CompressTwiceNext ==
    \/ LoadImageRejected
    \/ GetContextFailed
    \/ LoadImageResolved
    \/ CanvasToBlobFailed
    \/ CanvasToBlobWithinTolerance
    \/ CanvasToBlobIterate
    \/ CanvasToBlobExhausted
    \/ BlobToDataUrlResolved
    \/ BlobToDataUrlRejected
    \/ CompressAgain

SpecCompressTwice == CompressTwiceInit /\ [][CompressTwiceNext]_vars

(***************************************************************************)
(* The FaceDetection plugin: initialize, detectFace and dispose calls on   *)
(* one plugin object.  A call runs to its first await when it is made and  *)
(* then one step per promise that settles; the steps of the calls in       *)
(* flight interleave.                                                      *)
(*                                                                         *)
(* A frame is the image behind the imageData data URL: whether it decodes, *)
(* its size in pixels and the faces the platform detector finds in it,     *)
(* each as a pixel box (top-left origin) with the probability the detector *)
(* attaches to it in hundredths (-1: none).  Detector boxes are not        *)
(* confined to the frame.                                                  *)
(***************************************************************************)
MaxCalls == 3
MaxDetectCalls == 1

DetectedBoxes ==
    {[left |-> l, top |-> 60, right |-> l + 80, bottom |-> 60 + h, probability |-> p] :
        l \in {-20, 60}, h \in {100}, p \in {-1, 95}}

BadFrame == [decodable |-> FALSE, width |-> 0, height |-> 0, faces |-> << >>]

GoodFrames ==
    {[decodable |-> TRUE, width |-> 200, height |-> 200, faces |-> fs] :
        fs \in {<< >>} \cup {<<b>> : b \in DetectedBoxes}
               \cup {<<b, [b EXCEPT !.left = 10, !.right = 50]>> :
                           b \in {d \in DetectedBoxes : d.left = 60 /\ d.probability = 95}}}

\* Vision and ML Kit attach a confidence to every face; BlazeFace may not.
Frames(p) ==
    {BadFrame} \cup
    {fr \in GoodFrames :
        p = "web" \/ \A k \in 1..Len(fr.faces) : fr.faces[k].probability # -1}

Sensitivities == {0, 100}

DetectOptions(p) ==
    [imageData : Frames(p), ovalBounds : {PageOval}, sensitivity : Sensitivities]

NoOptions == [none |-> TRUE]

rejected(message) == [status |-> "rejected", message |-> message]
initializeResult(success) == [status |-> "resolved", success |-> success]
noFaceResult == [status |-> "resolved", faceDetected |-> FALSE, guidance |-> "no_face"]
\* Mutant: several faces are reported as no face detected.
multipleFacesResultUndetected ==
    [status |-> "resolved", faceDetected |-> FALSE, guidance |-> "multiple_faces"]
multipleFacesResult ==
    [status |-> "resolved", faceDetected |-> TRUE, guidance |-> "multiple_faces"]
oneFaceResult(b, g, c) ==
    [status |-> "resolved", faceDetected |-> TRUE, bounds |-> b, guidance |-> g,
     confidence |-> c]

\* A call as it is made.  born is the number of disposals resolved before
\* it, found the number of faces the detector has returned to it (-1: it
\* has returned none yet), consulted whether the call has run
\* calculateGuidance, failure what has failed under it: "none",
\* "initialize", "image" or "detector".
newCall(kind, options, pc, res) ==
    [kind |-> kind, options |-> options, pc |-> pc, born |-> disposals, found |-> -1,
     consulted |-> FALSE, failure |-> "none", result |-> res]

failedCall(kind, options, failure, res) ==
    [newCall(kind, options, "done", res) EXCEPT !.failure = failure]

InFlight == 1..Len(fdCalls)
canCall(p) == fdPlatform = p /\ Len(fdCalls) < MaxCalls
canDetect(p) ==
    /\ canCall(p)
    /\ Cardinality({c \in InFlight : fdCalls[c].kind = "detectFace"}) < MaxDetectCalls

FaceDetectionInit ==
    /\ CompressIdle
    /\ RemovalIdle
    /\ TwiceIdle
    /\ HomePageIdle
    /\ face = [x |-> 0, y |-> 0, width |-> 0, height |-> 0]
    /\ oval = PageOval
    /\ platform = "none"
    /\ guidance = "none"
    /\ gpc = "idle"
    /\ fdPlatform \in {"web", "ios", "android"}
    /\ model = "null"
    /\ isInitializing = FALSE
    /\ scriptsLoaded = FALSE
    /\ isInitialized = FALSE
    /\ detector = "null"
    /\ fdCalls = << >>
    /\ disposals = 0
    /\ loadedBy = 0
    /\ envFailed = FALSE

(***************************************************************************)
(* Web: FaceDetectionWeb                                                   *)
(***************************************************************************)
\* Pixel box to FaceBounds in hundredths of the frame.
webBounds(fr, p) ==
    [x |-> (100 * p.left) \div fr.width,
     y |-> (100 * p.top) \div fr.height,
     width |-> (100 * (p.right - p.left)) \div fr.width,
     height |-> (100 * (p.bottom - p.top)) \div fr.height]

\* prediction.probability?.[0] ?? 0.9
webConfidence(p) == IF p.probability = -1 THEN 90 ELSE p.probability

\* Mutant: with several faces the first one is reported.
webDetectResultFirstOfMany(options) ==
    LET fr == options.imageData
        predictions == fr.faces
    IN  IF Len(predictions) = 0 THEN noFaceResult
        ELSE LET b == webBounds(fr, predictions[1])
             IN  oneFaceResult(b, calculateGuidance(b, options.ovalBounds),
                               webConfidence(predictions[1]))

\* The result detectFace builds from the predictions of estimateFaces.
webDetectResult(options) ==
    LET fr == options.imageData
        predictions == fr.faces
    IN  IF Len(predictions) = 0 THEN noFaceResult
        ELSE IF Len(predictions) > 1 THEN multipleFacesResult
        ELSE LET b == webBounds(fr, predictions[1])
             IN  oneFaceResult(b, calculateGuidance(b, options.ovalBounds),
                               webConfidence(predictions[1]))

\* Mutant: initialize does not look at isInitializing.
initializeEntryNoFlag ==
    IF model # "null" THEN "return" ELSE "loadScripts"

\* initialize() up to its first await: where it goes.
initializeEntry ==
    IF model # "null" THEN "return"
    ELSE IF isInitializing THEN "waitForModel"
    ELSE "loadScripts"

\* initialize() returns success to the call c that ran it: an initialize
\* call resolves with it; a detectFace call resolves with no_face, or goes
\* on to load the image.
initializeReturned(c, success) ==
    IF fdCalls[c].kind = "initialize"
    THEN [fdCalls EXCEPT ![c].pc = "done",
                         ![c].failure = IF success THEN "none" ELSE "initialize",
                         ![c].result = initializeResult(success)]
    ELSE IF ~success
    THEN [fdCalls EXCEPT ![c].pc = "done", ![c].failure = "initialize",
                         ![c].result = noFaceResult]
    ELSE [fdCalls EXCEPT ![c].pc = "loadImage"]

WebInitialize ==
    /\ canCall("web")
    /\ isInitializing' = (isInitializing \/ initializeEntry = "loadScripts")
    /\ fdCalls' = Append(fdCalls,
            IF initializeEntry = "return"
            THEN newCall("initialize", NoOptions, "done", initializeResult(TRUE))
            ELSE newCall("initialize", NoOptions, initializeEntry, [status |-> "pending"]))
    /\ UNCHANGED <<gvars, cvars, rvars, tvars, hvars, fdPlatform, model, scriptsLoaded, isInitialized,
                   detector, disposals, loadedBy, envFailed>>

WebDetectFace ==
    /\ canDetect("web")
    /\ \E options \in DetectOptions("web") :
        IF model = "null"
        THEN /\ isInitializing' = (isInitializing \/ initializeEntry = "loadScripts")
             /\ fdCalls' = Append(fdCalls,
                    newCall("detectFace", options, initializeEntry, [status |-> "pending"]))
        ELSE /\ fdCalls' = Append(fdCalls,
                    newCall("detectFace", options, "loadImage", [status |-> "pending"]))
             /\ UNCHANGED isInitializing
    /\ UNCHANGED <<gvars, cvars, rvars, tvars, hvars, fdPlatform, model, scriptsLoaded, isInitialized,
                   detector, disposals, loadedBy, envFailed>>

\* if (this.model) this.model = null
WebDispose ==
    /\ canCall("web")
    /\ model' = "null"
    /\ loadedBy' = 0
    /\ disposals' = disposals + 1
    /\ fdCalls' = Append(fdCalls, newCall("dispose", NoOptions, "done", [status |-> "resolved"]))
    /\ UNCHANGED <<gvars, cvars, rvars, tvars, hvars, fdPlatform, isInitializing, scriptsLoaded,
                   isInitialized, detector, envFailed>>

\* loadScripts(): the two script loads and the two waits, then the flag.
LoadScriptsResolved ==
    \E c \in InFlight :
        /\ fdCalls[c].pc = "loadScripts"
        /\ scriptsLoaded' = TRUE
        /\ fdCalls' = [fdCalls EXCEPT ![c].pc = "blazefaceLoad"]
        /\ UNCHANGED <<gvars, cvars, rvars, tvars, hvars, fdPlatform, model, isInitializing, isInitialized,
                       detector, disposals, loadedBy, envFailed>>

\* A script fails to load: the catch of initialize.
LoadScriptsRejected ==
    \E c \in InFlight :
        /\ fdCalls[c].pc = "loadScripts"
        /\ ~scriptsLoaded
        /\ isInitializing' = FALSE
        /\ envFailed' = TRUE
        /\ fdCalls' = initializeReturned(c, FALSE)
        /\ UNCHANGED <<gvars, cvars, rvars, tvars, hvars, fdPlatform, model, scriptsLoaded, isInitialized,
                       detector, disposals, loadedBy>>

BlazefaceLoadResolved ==
    \E c \in InFlight :
        /\ fdCalls[c].pc = "blazefaceLoad"
        /\ model' = "loaded"
        /\ loadedBy' = c
        /\ isInitializing' = FALSE
        /\ fdCalls' = initializeReturned(c, TRUE)
        /\ UNCHANGED <<gvars, cvars, rvars, tvars, hvars, fdPlatform, scriptsLoaded, isInitialized,
                       detector, disposals, envFailed>>

BlazefaceLoadRejected ==
    \E c \in InFlight :
        /\ fdCalls[c].pc = "blazefaceLoad"
        /\ isInitializing' = FALSE
        /\ envFailed' = TRUE
        /\ fdCalls' = initializeReturned(c, FALSE)
        /\ UNCHANGED <<gvars, cvars, rvars, tvars, hvars, fdPlatform, model, scriptsLoaded, isInitialized,
                       detector, disposals, loadedBy>>

\* waitForModel() sees isInitializing false at one of its polls.
WaitForModelReturned ==
    \E c \in InFlight :
        /\ fdCalls[c].pc = "waitForModel"
        /\ ~isInitializing
        /\ fdCalls' = initializeReturned(c, model # "null")
        /\ UNCHANGED <<gvars, cvars, rvars, tvars, hvars, fdPlatform, model, isInitializing, scriptsLoaded,
                       isInitialized, detector, disposals, loadedBy, envFailed>>

\* waitForModel() gives up after maxWait with the initialization still on.
WaitForModelTimedOut ==
    \E c \in InFlight :
        /\ fdCalls[c].pc = "waitForModel"
        /\ isInitializing
        /\ envFailed' = TRUE
        /\ fdCalls' = initializeReturned(c, model # "null")
        /\ UNCHANGED <<gvars, cvars, rvars, tvars, hvars, fdPlatform, model, isInitializing, scriptsLoaded,
                       isInitialized, detector, disposals, loadedBy>>

\* The image loads; this.model.estimateFaces is then called on the model
\* the plugin holds at that moment (a TypeError on null, caught).
WebLoadImageResolved ==
    \E c \in InFlight :
        /\ fdCalls[c].pc = "loadImage"
        /\ fdCalls[c].options.imageData.decodable
        /\ fdCalls' = IF model = "null"
                      THEN [fdCalls EXCEPT ![c].pc = "done", ![c].result = noFaceResult]
                      ELSE [fdCalls EXCEPT ![c].pc = "estimateFaces"]
        /\ UNCHANGED <<gvars, cvars, rvars, tvars, hvars, fdPlatform, model, isInitializing, scriptsLoaded,
                       isInitialized, detector, disposals, loadedBy, envFailed>>

WebLoadImageRejected ==
    \E c \in InFlight :
        /\ fdCalls[c].pc = "loadImage"
        /\ ~fdCalls[c].options.imageData.decodable
        /\ fdCalls' = [fdCalls EXCEPT ![c].pc = "done", ![c].failure = "image",
                                      ![c].result = noFaceResult]
        /\ UNCHANGED <<gvars, cvars, rvars, tvars, hvars, fdPlatform, model, isInitializing, scriptsLoaded,
                       isInitialized, detector, disposals, loadedBy, envFailed>>

EstimateFacesResolved ==
    \E c \in InFlight :
        /\ fdCalls[c].pc = "estimateFaces"
        /\ fdCalls' = [fdCalls EXCEPT
                ![c].pc = "done",
                ![c].found = Len(fdCalls[c].options.imageData.faces),
                ![c].consulted = (Len(fdCalls[c].options.imageData.faces) = 1),
                ![c].result = webDetectResult(fdCalls[c].options)]
        /\ UNCHANGED <<gvars, cvars, rvars, tvars, hvars, fdPlatform, model, isInitializing, scriptsLoaded,
                       isInitialized, detector, disposals, loadedBy, envFailed>>

EstimateFacesRejected ==
    \E c \in InFlight :
        /\ fdCalls[c].pc = "estimateFaces"
        /\ envFailed' = TRUE
        /\ fdCalls' = [fdCalls EXCEPT ![c].pc = "done", ![c].failure = "detector",
                                      ![c].result = noFaceResult]
        /\ UNCHANGED <<gvars, cvars, rvars, tvars, hvars, fdPlatform, model, isInitializing, scriptsLoaded,
                       isInitialized, detector, disposals, loadedBy>>

(***************************************************************************)
(* iOS: FaceDetectionPlugin (Swift, Vision)                                *)
(***************************************************************************)
\* What Vision reports for a face: the box normalized to the image with the
\* origin at the bottom-left corner, and a confidence.
visionObservation(fr, p) ==
    [x |-> (100 * p.left) \div fr.width,
     y |-> 100 - (100 * p.bottom) \div fr.height,
     width |-> (100 * (p.right - p.left)) \div fr.width,
     height |-> (100 * (p.bottom - p.top)) \div fr.height,
     confidence |-> p.probability]

\* Vision box to FaceBounds with the origin at the top-left corner.
iosBounds(bb) ==
    [x |-> bb.x, y |-> 100 - bb.y - bb.height, width |-> bb.width, height |-> bb.height]

\* The result performFaceDetection completes with when the request succeeds.
iosDetectResult(options) ==
    LET fr == options.imageData
        results == [k \in 1..Len(fr.faces) |-> visionObservation(fr, fr.faces[k])]
    IN  IF Len(results) = 0 THEN noFaceResult
        ELSE IF Len(results) > 1 THEN multipleFacesResult
        ELSE LET b == iosBounds(results[1])
             IN  oneFaceResult(b, iosCalculateGuidance(b, options.ovalBounds),
                               results[1].confidence)

IosInitialize ==
    /\ canCall("ios")
    /\ isInitialized' = TRUE
    /\ fdCalls' = Append(fdCalls,
            newCall("initialize", NoOptions, "done", initializeResult(TRUE)))
    /\ UNCHANGED <<gvars, cvars, rvars, tvars, hvars, fdPlatform, model, isInitializing, scriptsLoaded,
                   detector, disposals, loadedBy, envFailed>>

IosDispose ==
    /\ canCall("ios")
    /\ isInitialized' = FALSE
    /\ disposals' = disposals + 1
    /\ fdCalls' = Append(fdCalls, newCall("dispose", NoOptions, "done", [status |-> "resolved"]))
    /\ UNCHANGED <<gvars, cvars, rvars, tvars, hvars, fdPlatform, model, isInitializing, scriptsLoaded,
                   detector, loadedBy, envFailed>>

\* detectFace up to the dispatch to the background queue.
IosDetectFace ==
    /\ canDetect("ios")
    /\ \E options \in DetectOptions("ios") :
        fdCalls' = Append(fdCalls,
            IF ~options.imageData.decodable
            THEN failedCall("detectFace", options, "image",
                            rejected("Failed to decode image"))
            ELSE newCall("detectFace", options, "perform", [status |-> "pending"]))
    /\ UNCHANGED <<gvars, cvars, rvars, tvars, hvars, fdPlatform, model, isInitializing, scriptsLoaded,
                   isInitialized, detector, disposals, loadedBy, envFailed>>

IosPerformCompleted ==
    \E c \in InFlight :
        /\ fdCalls[c].pc = "perform"
        /\ fdCalls' = [fdCalls EXCEPT
                ![c].pc = "done",
                ![c].found = Len(fdCalls[c].options.imageData.faces),
                ![c].consulted = (Len(fdCalls[c].options.imageData.faces) = 1),
                ![c].result = iosDetectResult(fdCalls[c].options)]
        /\ UNCHANGED <<gvars, cvars, rvars, tvars, hvars, fdPlatform, model, isInitializing, scriptsLoaded,
                       isInitialized, detector, disposals, loadedBy, envFailed>>

\* The request completes with an error, without face observations, or
\* handler.perform throws.
IosPerformFailed ==
    \E c \in InFlight :
        /\ fdCalls[c].pc = "perform"
        /\ envFailed' = TRUE
        /\ fdCalls' = [fdCalls EXCEPT ![c].pc = "done", ![c].failure = "detector",
                                      ![c].result = noFaceResult]
        /\ UNCHANGED <<gvars, cvars, rvars, tvars, hvars, fdPlatform, model, isInitializing, scriptsLoaded,
                       isInitialized, detector, disposals, loadedBy>>

(***************************************************************************)
(* Android: FaceDetectionPlugin (Kotlin, ML Kit)                           *)
(***************************************************************************)
\* boundingBox (a pixel Rect) over the bitmap size.
androidBounds(fr, p) ==
    [x |-> (100 * p.left) \div fr.width,
     y |-> (100 * p.top) \div fr.height,
     width |-> (100 * (p.right - p.left)) \div fr.width,
     height |-> (100 * (p.bottom - p.top)) \div fr.height]

processFaces(options) ==
    LET fr == options.imageData
        faces == fr.faces
    IN  IF Len(faces) = 0 THEN noFaceResult
        ELSE IF Len(faces) > 1 THEN multipleFacesResult
        ELSE LET b == androidBounds(fr, faces[1])
             IN  oneFaceResult(b, androidCalculateGuidance(b, options.ovalBounds), 90)

AndroidInitialize ==
    /\ canCall("android")
    /\ detector' = "client"
    /\ fdCalls' = Append(fdCalls,
            newCall("initialize", NoOptions, "done", initializeResult(TRUE)))
    /\ UNCHANGED <<gvars, cvars, rvars, tvars, hvars, fdPlatform, model, isInitializing, scriptsLoaded,
                   isInitialized, disposals, loadedBy, envFailed>>

\* FaceDetection.getClient throws: the catch of initialize.
AndroidInitializeFailed ==
    /\ canCall("android")
    /\ envFailed' = TRUE
    /\ fdCalls' = Append(fdCalls,
            failedCall("initialize", NoOptions, "initialize", initializeResult(FALSE)))
    /\ UNCHANGED <<gvars, cvars, rvars, tvars, hvars, fdPlatform, model, isInitializing, scriptsLoaded,
                   isInitialized, detector, disposals, loadedBy>>

AndroidDispose ==
    /\ canCall("android")
    /\ detector' = "null"
    /\ disposals' = disposals + 1
    /\ fdCalls' = Append(fdCalls, newCall("dispose", NoOptions, "done", [status |-> "resolved"]))
    /\ UNCHANGED <<gvars, cvars, rvars, tvars, hvars, fdPlatform, model, isInitializing, scriptsLoaded,
                   isInitialized, loadedBy, envFailed>>

\* detectFace up to detector.process(inputImage).
AndroidDetectFace ==
    /\ canDetect("android")
    /\ \E options \in DetectOptions("android") :
        IF ~options.imageData.decodable
        THEN /\ fdCalls' = Append(fdCalls,
                    failedCall("detectFace", options, "image",
                               rejected("Failed to decode image")))
             /\ UNCHANGED detector
        ELSE /\ detector' = "client"
             /\ fdCalls' = Append(fdCalls,
                    newCall("detectFace", options, "process", [status |-> "pending"]))
    /\ UNCHANGED <<gvars, cvars, rvars, tvars, hvars, fdPlatform, model, isInitializing, scriptsLoaded,
                   isInitialized, disposals, loadedBy, envFailed>>

\* detectFace finds no detector and FaceDetection.getClient throws: nothing
\* in detectFace catches it and the call is neither resolved nor rejected
\* by the plugin.
AndroidDetectFaceThrew ==
    /\ canDetect("android")
    /\ detector = "null"
    /\ envFailed' = TRUE
    /\ \E options \in DetectOptions("android") :
        /\ options.imageData.decodable
        /\ fdCalls' = Append(fdCalls,
                failedCall("detectFace", options, "initialize", [status |-> "thrown"]))
    /\ UNCHANGED <<gvars, cvars, rvars, tvars, hvars, fdPlatform, model, isInitializing, scriptsLoaded,
                   isInitialized, detector, disposals, loadedBy>>

AndroidProcessSucceeded ==
    \E c \in InFlight :
        /\ fdCalls[c].pc = "process"
        /\ fdCalls' = [fdCalls EXCEPT
                ![c].pc = "done",
                ![c].found = Len(fdCalls[c].options.imageData.faces),
                ![c].consulted = (Len(fdCalls[c].options.imageData.faces) = 1),
                ![c].result = processFaces(fdCalls[c].options)]
        /\ UNCHANGED <<gvars, cvars, rvars, tvars, hvars, fdPlatform, model, isInitializing, scriptsLoaded,
                       isInitialized, detector, disposals, loadedBy, envFailed>>

AndroidProcessFailed ==
    \E c \in InFlight :
        /\ fdCalls[c].pc = "process"
        /\ envFailed' = TRUE
        /\ fdCalls' = [fdCalls EXCEPT ![c].pc = "done", ![c].failure = "detector",
                                      ![c].result = noFaceResult]
        /\ UNCHANGED <<gvars, cvars, rvars, tvars, hvars, fdPlatform, model, isInitializing, scriptsLoaded,
                       isInitialized, detector, disposals, loadedBy>>

FaceDetectionNext ==
    \/ WebInitialize
    \/ WebDetectFace
    \/ WebDispose
    \/ LoadScriptsResolved
    \/ LoadScriptsRejected
    \/ BlazefaceLoadResolved
    \/ BlazefaceLoadRejected
    \/ WaitForModelReturned
    \/ WaitForModelTimedOut
    \/ WebLoadImageResolved
    \/ WebLoadImageRejected
    \/ EstimateFacesResolved
    \/ EstimateFacesRejected
    \/ IosInitialize
    \/ IosDispose
    \/ IosDetectFace
    \/ IosPerformCompleted
    \/ IosPerformFailed
    \/ AndroidInitialize
    \/ AndroidInitializeFailed
    \/ AndroidDispose
    \/ AndroidDetectFace
    \/ AndroidDetectFaceThrew
    \/ AndroidProcessSucceeded
    \/ AndroidProcessFailed

SpecFaceDetection == FaceDetectionInit /\ [][FaceDetectionNext]_vars


(***************************************************************************)
(* Background removal: ImageProcessingService.removeBackground over the    *)
(* BackgroundRemoval plugin of the platform.  The image a plugin resolves  *)
(* with is described by its mask: "segmentation" (the ML Kit mask) or      *)
(* "ellipse" with the centre and the radii in thousandths of a pixel.      *)
(***************************************************************************)
RemovalImages ==
    Frames("ios") \cup
    {[decodable |-> TRUE, width |-> 300, height |-> 200, faces |-> << >>],
     [decodable |-> TRUE, width |-> 200, height |-> 300,
      faces |-> <<[left |-> 60, top |-> 90, right |-> 140, bottom |-> 210,
                   probability |-> 95]>>]}

Min(a, b) == IF a < b THEN a ELSE b

ellipse(cx, cy, rx, ry) ==
    [kind |-> "ellipse", centerX |-> cx, centerY |-> cy, radiusX |-> rx, radiusY |-> ry]

removalResolved(mask, faceDetected) ==
    [status |-> "resolved", mask |-> mask, faceDetected |-> faceDetected,
     failure |-> "none"]
removalRejected(failure, message) ==
    [status |-> "rejected", message |-> message, failure |-> failure]

\* Web: the ellipse drawn on the square canvas of side min(width, height).
webEllipticalMask(img) ==
    LET size == Min(img.width, img.height)
    IN  ellipse(500 * size, 500 * size, 450 * size, 480 * size)

\* Android: applyEllipticalMask.
androidEllipticalMask(img) ==
    LET minDim == Min(img.width, img.height)
    IN  ellipse(500 * img.width, 500 * img.height, 450 * minDim, 550 * minDim)

\* iOS: convertFaceRect, in hundredths of a pixel.
convertFaceRect(bb, img) ==
    [x |-> bb.x * img.width,
     y |-> (100 - bb.y - bb.height) * img.height,
     width |-> bb.width * img.width,
     height |-> bb.height * img.height]

\* iOS: applyEllipticalMask around the face, or at the centre without one.
iosEllipticalMask(img, hasFace, f) ==
    LET minDim == Min(img.width, img.height)
    IN  IF hasFace
        THEN ellipse(10 * f.x + 5 * f.width, 10 * f.y + 5 * f.height - f.height,
                     9 * f.width, 11 * f.height)
        ELSE ellipse(500 * img.width, 500 * img.height, 400 * minDim, 500 * minDim)

RemovalInit ==
    /\ CompressIdle
    /\ FaceDetectionIdle
    /\ TwiceIdle
    /\ HomePageIdle
    /\ face = [x |-> 0, y |-> 0, width |-> 0, height |-> 0]
    /\ oval = PageOval
    /\ platform = "none"
    /\ guidance = "none"
    /\ gpc = "idle"
    /\ rbPlatform \in {"web", "ios", "android"}
    /\ rbpc = "called"
    /\ rbOptions \in [imageData : RemovalImages, useEllipticalMask : BOOLEAN]
    /\ rbPlugin = [status |-> "pending"]
    /\ rbService = [status |-> "pending"]

\* Web: img.onload with a 2D context.
WebRemoveBackgroundLoaded ==
    /\ rbPlatform = "web" /\ rbpc = "called"
    /\ rbOptions.imageData.decodable
    /\ rbPlugin' = removalResolved(webEllipticalMask(rbOptions.imageData), TRUE)
    /\ rbpc' = "settled"
    /\ UNCHANGED <<gvars, cvars, fvars, tvars, hvars, rbPlatform, rbOptions, rbService>>

WebRemoveBackgroundNoContext ==
    /\ rbPlatform = "web" /\ rbpc = "called"
    /\ rbOptions.imageData.decodable
    /\ rbPlugin' = removalRejected("context", "Could not get canvas context")
    /\ rbpc' = "settled"
    /\ UNCHANGED <<gvars, cvars, fvars, tvars, hvars, rbPlatform, rbOptions, rbService>>

WebRemoveBackgroundError ==
    /\ rbPlatform = "web" /\ rbpc = "called"
    /\ ~rbOptions.imageData.decodable
    /\ rbPlugin' = removalRejected("image", "Failed to load image")
    /\ rbpc' = "settled"
    /\ UNCHANGED <<gvars, cvars, fvars, tvars, hvars, rbPlatform, rbOptions, rbService>>

\* iOS: removeBackground up to the dispatch of processImage.
IosRemoveBackground ==
    /\ rbPlatform = "ios" /\ rbpc = "called"
    /\ IF rbOptions.imageData.decodable
       THEN rbpc' = "processing" /\ UNCHANGED rbPlugin
       ELSE /\ rbPlugin' = removalRejected("image", "Failed to decode image data")
            /\ rbpc' = "settled"
    /\ UNCHANGED <<gvars, cvars, fvars, tvars, hvars, rbPlatform, rbOptions, rbService>>

\* The face request completes without error: the mask around the first
\* face, or at the centre when there is none.
IosFaceRequestCompleted ==
    /\ rbPlatform = "ios" /\ rbpc = "processing"
    /\ LET img == rbOptions.imageData
           observations == [k \in 1..Len(img.faces) |-> visionObservation(img, img.faces[k])]
       IN  rbPlugin' =
               IF Len(observations) = 0
               THEN removalResolved(iosEllipticalMask(img, FALSE, observations), FALSE)
               ELSE removalResolved(
                        iosEllipticalMask(img, TRUE, convertFaceRect(observations[1], img)),
                        TRUE)
    /\ rbpc' = "settled"
    /\ UNCHANGED <<gvars, cvars, fvars, tvars, hvars, rbPlatform, rbOptions, rbService>>

\* The face request completes with an error, or handler.perform throws:
\* completion(.failure(error)), and the call is rejected.
IosFaceRequestFailed ==
    /\ rbPlatform = "ios" /\ rbpc = "processing"
    /\ rbPlugin' = removalRejected("request", "error.localizedDescription")
    /\ rbpc' = "settled"
    /\ UNCHANGED <<gvars, cvars, fvars, tvars, hvars, rbPlatform, rbOptions, rbService>>

\* No CGImage, no graphics context for the mask, or no PNG data.
IosMaskFailed ==
    /\ rbPlatform = "ios" /\ rbpc = "processing"
    /\ \E message \in {"Failed to get CGImage", "Failed to apply mask",
                       "Failed to encode result image"} :
        rbPlugin' = removalRejected("mask", message)
    /\ rbpc' = "settled"
    /\ UNCHANGED <<gvars, cvars, fvars, tvars, hvars, rbPlatform, rbOptions, rbService>>

\* Android: removeBackground up to segmenter.process(inputImage).
AndroidRemoveBackground ==
    /\ rbPlatform = "android" /\ rbpc = "called"
    /\ IF rbOptions.imageData.decodable
       THEN rbpc' = "processing" /\ UNCHANGED rbPlugin
       ELSE /\ rbPlugin' = removalRejected("image", "Failed to decode image data")
            /\ rbpc' = "settled"
    /\ UNCHANGED <<gvars, cvars, fvars, tvars, hvars, rbPlatform, rbOptions, rbService>>

\* InputImage.fromBitmap or segmenter.process throws: the catch.
AndroidRemoveBackgroundThrew ==
    /\ rbPlatform = "android" /\ rbpc = "called"
    /\ rbOptions.imageData.decodable
    /\ rbPlugin' = removalRejected("process", "Error processing image")
    /\ rbpc' = "settled"
    /\ UNCHANGED <<gvars, cvars, fvars, tvars, hvars, rbPlatform, rbOptions, rbService>>

AndroidSegmentationSucceeded ==
    /\ rbPlatform = "android" /\ rbpc = "processing"
    /\ rbPlugin' = removalResolved([kind |-> "segmentation"], TRUE)
    /\ rbpc' = "settled"
    /\ UNCHANGED <<gvars, cvars, fvars, tvars, hvars, rbPlatform, rbOptions, rbService>>

\* addOnFailureListener: the fallback to the elliptical mask.
AndroidSegmentationFailed ==
    /\ rbPlatform = "android" /\ rbpc = "processing"
    /\ rbPlugin' = [removalResolved(androidEllipticalMask(rbOptions.imageData), FALSE)
                        EXCEPT !.failure = "request"]
    /\ rbpc' = "settled"
    /\ UNCHANGED <<gvars, cvars, fvars, tvars, hvars, rbPlatform, rbOptions, rbService>>

\* ImageProcessingService.removeBackground: the result of the plugin.
ServiceRemoveBackgroundReturned ==
    /\ rbpc = "settled"
    /\ rbPlugin.status = "resolved"
    /\ rbService' = [status |-> "resolved", mask |-> rbPlugin.mask,
                     faceDetected |-> rbPlugin.faceDetected]
    /\ rbpc' = "returned"
    /\ UNCHANGED <<gvars, cvars, fvars, tvars, hvars, rbPlatform, rbOptions, rbPlugin>>

\* ImageProcessingService.removeBackground: the catch logs and rethrows.
ServiceRemoveBackgroundThrew ==
    /\ rbpc = "settled"
    /\ rbPlugin.status = "rejected"
    /\ rbService' = [status |-> "rejected", message |-> rbPlugin.message]
    /\ rbpc' = "returned"
    /\ UNCHANGED <<gvars, cvars, fvars, tvars, hvars, rbPlatform, rbOptions, rbPlugin>>

RemovalNext ==
    \/ WebRemoveBackgroundLoaded
    \/ WebRemoveBackgroundNoContext
    \/ WebRemoveBackgroundError
    \/ IosRemoveBackground
    \/ IosFaceRequestCompleted
    \/ IosFaceRequestFailed
    \/ IosMaskFailed
    \/ AndroidRemoveBackground
    \/ AndroidRemoveBackgroundThrew
    \/ AndroidSegmentationSucceeded
    \/ AndroidSegmentationFailed
    \/ ServiceRemoveBackgroundReturned
    \/ ServiceRemoveBackgroundThrew

SpecRemoval == RemovalInit /\ [][RemovalNext]_vars

(***************************************************************************)
(* Claims about the guidance calculator.  The quantities below are         *)
(* computed from the inputs as the claims word them, not through the       *)
(* operators of the model above.                                           *)
(***************************************************************************)
\* Head box: 40% of the face height on top, 8% below, 10% of the width per side.
ClaimHeadLeft == 200 * face.x - 20 * face.width
ClaimHeadRight == 200 * (face.x + face.width) + 20 * face.width
ClaimHeadTop == 200 * face.y - 80 * face.height
ClaimHeadBottom == 200 * (face.y + face.height) + 16 * face.height
ClaimHeadSize == Max(240 * face.width, 296 * face.height)
ClaimOvalSize == Max(400 * oval.radiusX, 400 * oval.radiusY)
ClaimRatioBelow == 100 * ClaimHeadSize < 80 * ClaimOvalSize
ClaimRatioAbove == 100 * ClaimHeadSize > 115 * ClaimOvalSize
ClaimRatioWithin == ~ClaimRatioBelow /\ ~ClaimRatioAbove

\* Overflow of the head box outside each edge of the oval's bounding rectangle.
ClaimEdges == <<"left", "right", "top", "bottom">>
ClaimOverflow(e) ==
    CASE e = "left" -> 200 * (oval.centerX - oval.radiusX) - ClaimHeadLeft
      [] e = "right" -> ClaimHeadRight - 200 * (oval.centerX + oval.radiusX)
      [] e = "top" -> 200 * (oval.centerY - oval.radiusY) - ClaimHeadTop
      [] e = "bottom" -> ClaimHeadBottom - 200 * (oval.centerY + oval.radiusY)
ClaimOpposite(e) ==
    CASE e = "left" -> "move_right"
      [] e = "right" -> "move_left"
      [] e = "top" -> "move_down"
      [] e = "bottom" -> "move_up"
ClaimOverflowing == {e1 \in 1..4 : ClaimOverflow(ClaimEdges[e1]) > 0}
ClaimLargest ==
    {e1 \in 1..4 : \A e2 \in 1..4 : ClaimOverflow(ClaimEdges[e1]) >= ClaimOverflow(ClaimEdges[e2])}
ClaimFirstLargest == CHOOSE e1 \in ClaimLargest : \A e2 \in ClaimLargest : e1 <= e2

\* Twice the offset of the head centre from the oval centre, per axis.
ClaimXOffset2 == Abs(ClaimHeadLeft + ClaimHeadRight - 400 * oval.centerX)
ClaimYOffset2 == Abs(ClaimHeadTop + ClaimHeadBottom - 400 * oval.centerY)
ClaimHeadIsLeft == ClaimHeadLeft + ClaimHeadRight < 400 * oval.centerX
ClaimHeadIsAbove == ClaimHeadTop + ClaimHeadBottom < 400 * oval.centerY

WebDone == gpc = "done" /\ platform = "web"
IosDone == gpc = "done" /\ platform = "ios"

\* The centre of the face rectangle coincides with the centre of the oval.
ClaimFaceCentred ==
    /\ 2 * face.x + face.width = 2 * oval.centerX
    /\ 2 * face.y + face.height = 2 * oval.centerY

\* The iOS calculator's size ratio (face / oval) lies within its thresholds 0.5 and 1.1.
ClaimIosRatioWithin ==
    LET fs == Max(face.width, face.height)
        os == Max(2 * oval.radiusX, 2 * oval.radiusY)
    IN 10 * fs >= 5 * os /\ 10 * fs <= 11 * os

\* C1: a face rectangle centred on the oval centre whose size ratio lies within
\* the calculator's size thresholds gets hold_still (web and iOS calculators).
C1_CentredSizedHoldStill ==
    /\ (WebDone /\ ClaimFaceCentred /\ ClaimRatioWithin) => guidance = "hold_still"
    /\ (IosDone /\ ClaimFaceCentred /\ ClaimIosRatioWithin) => guidance = "hold_still"

\* C2 (as claimed): a face outside some edge of the oval gets the direction
\* opposite to an edge it overflows.
C2_OutsideEdgeOpposite ==
    (WebDone /\ ClaimOverflowing # {})
        => guidance \in {ClaimOpposite(ClaimEdges[e1]) : e1 \in ClaimOverflowing}

\* C2 (amended): when the size ratio is within [0.8, 1.15], a face whose head box
\* lies outside some edge of the oval's bounding rectangle gets the direction
\* opposite to an edge it overflows.
C2_SizedOutsideEdgeOpposite ==
    (WebDone /\ ClaimRatioWithin /\ ClaimOverflowing # {})
        => guidance \in {ClaimOpposite(ClaimEdges[e1]) : e1 \in ClaimOverflowing}

C2_Witness ==
    /\ WebDone /\ ClaimRatioWithin
    /\ ClaimOverflowing = {4}
    /\ guidance = "move_up"

\* C3: the head box is the face box padded 40% / 8% / 10%; a ratio
\* max(head w, head h) / max(oval w, oval h) below 0.8 gives move_closer and one
\* above 1.15 gives move_back whatever the position; within [0.8, 1.15] the
\* result is a position result (never move_closer or move_back).
C3_SizeFirst ==
    WebDone =>
        /\ ClaimRatioBelow => guidance = "move_closer"
        /\ ClaimRatioAbove => guidance = "move_back"
        /\ ClaimRatioWithin => guidance \notin {"move_closer", "move_back"}

C3_Witness ==
    /\ WebDone
    /\ ClaimRatioAbove
    /\ ClaimOverflow("left") > 0
    /\ ClaimOverflow("right") <= 0
    /\ guidance = "move_back"

\* C4: with the ratio within the thresholds and some positive overflow, the
\* result is the direction of the edge with the largest overflow, the first of
\* left, right, top, bottom among equals.
C4_LargestOverflowFirstWins ==
    (WebDone /\ ClaimRatioWithin /\ ClaimOverflowing # {})
        => guidance = ClaimOpposite(ClaimEdges[ClaimFirstLargest])

C4_Witness ==
    /\ WebDone /\ ClaimRatioWithin
    /\ ClaimOverflowing # {}
    /\ ClaimLargest = {2, 3}
    /\ guidance = "move_left"

\* C5: with the ratio within the thresholds and no positive overflow, an offset
\* of the head centre above 0.15 on either axis gives a correction on the axis
\* of the larger offset (vertical only when the y offset is strictly larger),
\* towards the oval centre; otherwise hold_still.
C5_CentreOffset ==
    (WebDone /\ ClaimRatioWithin /\ ClaimOverflowing = {})
        => guidance =
             IF ClaimXOffset2 > 6000 \/ ClaimYOffset2 > 6000
             THEN IF ClaimYOffset2 > ClaimXOffset2
                  THEN (IF ClaimHeadIsAbove THEN "move_down" ELSE "move_up")
                  ELSE (IF ClaimHeadIsLeft THEN "move_right" ELSE "move_left")
             ELSE "hold_still"

C5_Witness ==
    /\ WebDone /\ ClaimRatioWithin /\ ClaimOverflowing = {}
    /\ ClaimYOffset2 > 6000
    /\ ClaimYOffset2 > ClaimXOffset2
    /\ guidance = "move_down"

\* C29: the web, iOS and Android calculators return the same guidance for
\* the same normalized face rectangle and oval: whichever implementation
\* ran, its guidance is the one each of the three returns for the inputs.
C29_PlatformsAgree ==
    gpc = "done" =>
        /\ guidance = calculateGuidance(face, oval)
        /\ guidance = iosCalculateGuidance(face, oval)
        /\ guidance = androidCalculateGuidance(face, oval)

\* The native half of C29: the iOS and the Android calculator agree.
C29_NativePlatformsAgree ==
    gpc = "done" /\ platform # "web" =>
        /\ guidance = iosCalculateGuidance(face, oval)
        /\ guidance = androidCalculateGuidance(face, oval)

(***************************************************************************)
(* Claims about compressImage.                                             *)
(***************************************************************************)
ClaimTarget == targetSizeKB * 1024
ClaimDistance(k) == Abs(blobs[k].size - ClaimTarget)
ClaimSettled == cpc \in {"resolved", "rejected"}

\* The qualities of [0.10, 0.95] for which a step encoder is within the tolerance
\* form the interval [ClaimGoodLo, ClaimGoodHi] (empty when ClaimGoodLo > ClaimGoodHi).
ClaimGoodLo == Max(encoder.lo, 2560)
ClaimGoodHi == IF encoder.hi <= 24320 THEN encoder.hi ELSE 24320

\* C6 (as claimed): with an encoder non-decreasing in the quality for which some
\* quality in [0.10, 0.95] is within the tolerance, the result is within 1024
\* bytes of the target.
C6_MonotoneWithinTolerance ==
    (cpc = "resolved" /\ encoder.kind = "step" /\ ClaimGoodLo <= ClaimGoodHi)
        => Abs(result.size - ClaimTarget) < 1024

\* C6 (amended): with an encoder non-decreasing in the quality that is within the
\* tolerance on an interval of qualities at least 0.005 (128/25600) long inside
\* [0.10, 0.95], the loop ends holding a blob within 1024 bytes of the target, and
\* that is the size a result has.
C6_MonotoneWideWithinTolerance ==
    (encoder.kind = "step" /\ ClaimGoodHi - ClaimGoodLo >= 128)
        => /\ cpc \in {"blobToDataUrl", "resolved"}
                => /\ bestBlob \in 1..Len(blobs)
                   /\ ClaimDistance(bestBlob) < 1024
           /\ cpc = "resolved" => Abs(result.size - ClaimTarget) < 1024

C6_Witness ==
    /\ cpc = "resolved"
    /\ encoder.kind = "step"
    /\ ClaimGoodHi - ClaimGoodLo = 128
    /\ Len(blobs) = 8
    /\ Abs(result.size - ClaimTarget) < 1024

\* C7: whatever the encoder does, at most 8 encoder calls are made, and the
\* invocation settles (resolves or rejects) when every pending call completes.
C7_TerminatesWithinBound ==
    /\ [](calls <= 8 /\ Len(blobs) <= calls)
    /\ <>ClaimSettled

C7_Witness ==
    /\ cpc = "resolved"
    /\ encoder.kind = "any"
    /\ calls = 8
    /\ Len(blobs) = 8

\* C8: the blob resolved with is, among all blobs the encoder produced in the
\* call, the earliest of those closest in size to the target, and the size
\* field is that blob's size.
C8_ClosestEarliest ==
    cpc = "resolved" =>
        /\ result.blob \in 1..Len(blobs)
        /\ \A k \in 1..Len(blobs) : ClaimDistance(result.blob) <= ClaimDistance(k)
        /\ \A k \in 1..(result.blob - 1) : ClaimDistance(result.blob) < ClaimDistance(k)
        /\ result.size = blobs[result.blob].size

C8_Witness ==
    /\ cpc = "resolved"
    /\ result.blob \in 2..(Len(blobs) - 1)
    /\ \E k \in (result.blob + 1)..Len(blobs) :
           ClaimDistance(k) = ClaimDistance(result.blob)

\* C9: once a blob within 1024 bytes of the target has been produced, it is the
\* last blob produced, no encoder call is pending or made after it, it is the
\* blob held, and a result is that blob.
C9_EarlyTermination ==
    \A k \in 1..Len(blobs) :
        ClaimDistance(k) < 1024
            => /\ k = Len(blobs)
               /\ calls = k
               /\ cpc # "canvasToBlob"
               /\ bestBlob = k
               /\ cpc = "resolved" => result.blob = k

C9_Witness ==
    /\ cpc = "resolved"
    /\ Len(blobs) = 3
    /\ ClaimDistance(3) < 1024
    /\ result.blob = 3

\* A rejection that stems from the encoding (not from loading the image, the
\* canvas context or reading the blob back).
ClaimCompressionFailed ==
    /\ cpc = "rejected"
    /\ error \notin {"image load error", "Could not get canvas context", "file reader error"}

\* C10 (as claimed): a compression failure surfaces after the iterations are
\* exhausted, as 'Failed to compress image', and no result lacks a blob.
C10_FailureAfterExhaustion ==
    /\ ClaimCompressionFailed => (error = "Failed to compress image" /\ i = 8)
    /\ cpc = "resolved" => result.blob # 0

\* C10 (amended): a compression failure surfaces at the first encoder call that
\* yields no blob, as 'Failed to create blob', with no further encoder call;
\* 'Failed to compress image' is never raised (a loop that ran holds a blob);
\* every rejection carries an error and no result lacks a blob.
C10_FailureAtFirstNullBlob ==
    /\ ClaimCompressionFailed
         => /\ error = "Failed to create blob"
            /\ calls = Len(blobs) + 1
            /\ \A k \in 1..Len(blobs) : blobs[k].size # NullBlob
    /\ error # "Failed to compress image"
    /\ cpc = "rejected" => error # ""
    /\ cpc \in {"blobToDataUrl", "resolved"} => bestBlob \in 1..Len(blobs)
    /\ cpc = "resolved" => result.blob \in 1..Len(blobs)

C10_Witness ==
    /\ cpc = "rejected"
    /\ error = "Failed to create blob"
    /\ Len(blobs) = 2
    /\ calls = 3


ClaimQualities(bs) == [k \in 1..Len(bs) |-> bs[k].quality]

\* C14: two invocations with the same image and target and an encoder that
\* maps every quality to the same blob call the encoder with the same
\* sequence of qualities, and when both resolve they have made the same
\* calls and return blobs of the same size.
C14_SameQualitiesSameSize ==
    invocation = 2 =>
        /\ \A k \in 1..Len(blobs) :
            k <= Len(firstBlobs) => blobs[k].quality = firstBlobs[k].quality
        /\ cpc = "resolved" /\ firstOutcome.cpc = "resolved" =>
            /\ ClaimQualities(blobs) = ClaimQualities(firstBlobs)
            /\ result.size = firstOutcome.result.size

\* Both invocations have resolved after a search of several encoder calls.
C14_Witness ==
    /\ invocation = 2
    /\ cpc = "resolved"
    /\ firstOutcome.cpc = "resolved"
    /\ Len(blobs) >= 3

\* C15: whenever the encoder is called, minQuality <= quality <= maxQuality
\* and the quality lies in [0.10, 0.95]; so does every quality an encoder
\* call was made with, whatever sizes the encoder returned.
C15_QualityWithinRange ==
    /\ cpc = "canvasToBlob" =>
        /\ minQuality <= quality /\ quality <= maxQuality
        /\ 2560 <= quality /\ quality <= 24320
    /\ \A k \in 1..Len(blobs) :
        2560 <= blobs[k].quality /\ blobs[k].quality <= 24320

\* The search has moved both bounds and calls the encoder again.
C15_Witness ==
    /\ cpc = "canvasToBlob"
    /\ Len(blobs) >= 3
    /\ minQuality > 2560
    /\ maxQuality < 24320

(***************************************************************************)
(* Claims about the FaceDetection plugin.                                  *)
(***************************************************************************)
DetectDone == {c \in InFlight : fdCalls[c].kind = "detectFace" /\ fdCalls[c].pc = "done"}

ClaimSafeDefault(r) ==
    /\ r.status = "resolved"
    /\ r.faceDetected = FALSE
    /\ r.guidance = "no_face"

\* C11: on every platform a detectFace call under which the model could not
\* be initialised, the frame could not be loaded or decoded, or the detector
\* raised an error, resolves with faceDetected false and guidance no_face
\* and is not rejected.
C11_FailureDegradesToNoFace ==
    \A c \in DetectDone :
        fdCalls[c].failure # "none" => ClaimSafeDefault(fdCalls[c].result)

\* The web half of C11.
C11_WebFailureDegradesToNoFace ==
    fdPlatform = "web" => C11_FailureDegradesToNoFace


\* What a detectFace call with these options returns when it is the only
\* call made on a new plugin and nothing fails around it.
ClaimAloneResult(options) ==
    IF ~options.imageData.decodable
    THEN IF fdPlatform = "web" THEN noFaceResult ELSE rejected("Failed to decode image")
    ELSE IF fdPlatform = "web" THEN webDetectResult(options)
    ELSE IF fdPlatform = "ios" THEN iosDetectResult(options)
    ELSE processFaces(options)

\* C13: the outcome of a detectFace call depends on its own inputs only: as
\* long as no load, wait or detector error occurs, it is what the call
\* returns alone, whatever initialize, detectFace and dispose calls ran
\* before it or interleave with it.
C13_DetectFaceIndependent ==
    \A c \in DetectDone :
        ~envFailed => fdCalls[c].result = ClaimAloneResult(fdCalls[c].options)

\* The native half of C13.
C13_NativeDetectFaceIndependent ==
    fdPlatform # "web" => C13_DetectFaceIndependent

ClaimHasBounds(r) == "bounds" \in DOMAIN r
ClaimHasConfidence(r) == "confidence" \in DOMAIN r

\* C16: on every platform a resolved detectFace result carries bounds and a
\* confidence exactly when the detector found exactly one face; with no
\* face it is {faceDetected: false, guidance: 'no_face'} and with several
\* {faceDetected: true, guidance: 'multiple_faces'}, both without bounds,
\* and with several faces the guidance calculator is not run.
C16_BoundsIffOneFace ==
    \A c \in DetectDone :
        LET r == fdCalls[c].result
            found == fdCalls[c].found
        IN  r.status = "resolved" =>
                /\ ClaimHasBounds(r) <=> found = 1
                /\ ClaimHasConfidence(r) <=> found = 1
                /\ found = 0 =>
                    r = [status |-> "resolved", faceDetected |-> FALSE,
                         guidance |-> "no_face"]
                /\ found > 1 =>
                    /\ r = [status |-> "resolved", faceDetected |-> TRUE,
                            guidance |-> "multiple_faces"]
                    /\ ~fdCalls[c].consulted

\* A detectFace call to which the detector returned several faces has resolved.
C16_Witness ==
    \E c \in DetectDone :
        /\ fdCalls[c].found > 1
        /\ fdCalls[c].result.guidance = "multiple_faces"

\* The guidance for a frame with one face under a given sensitivity.
ClaimGuidanceUnder(options, sensitivity) ==
    ClaimAloneResult([options EXCEPT !.sensitivity = sensitivity]).guidance

ClaimOneFaceOptions ==
    {options \in DetectOptions(fdPlatform) :
        options.imageData.decodable /\ Len(options.imageData.faces) = 1}

\* C17: the guidance depends on the sensitivity option (0 strict, 1
\* lenient): for some face and oval sensitivity 1 gives hold_still where
\* sensitivity 0 gives a corrective guidance, and raising the sensitivity
\* never turns hold_still into a corrective guidance.
C17_SensitivityLoosens ==
    /\ \E options \in ClaimOneFaceOptions :
        /\ ClaimGuidanceUnder(options, 100) = "hold_still"
        /\ ClaimGuidanceUnder(options, 0) # "hold_still"
    /\ \A options \in ClaimOneFaceOptions :
        ClaimGuidanceUnder(options, 0) = "hold_still"
            => ClaimGuidanceUnder(options, 100) = "hold_still"

\* What the code does instead: the sensitivity a call was made with has no
\* effect on its result.
C17_SensitivityIgnored ==
    \A c \in DetectDone :
        fdCalls[c].failure = "none" /\ fdCalls[c].found = 1 =>
            \A sensitivity \in Sensitivities :
                fdCalls[c].result.guidance
                    = ClaimGuidanceUnder(fdCalls[c].options, sensitivity)

ClaimNormalized(v) == 0 <= v /\ v <= 100

\* C18: every bounds rectangle a detectFace call resolves with is
\* normalized: x, y, width and height each lie in [0, 1], whatever box the
\* detector reported.
C18_BoundsNormalized ==
    \A c \in DetectDone :
        ClaimHasBounds(fdCalls[c].result) =>
            LET b == fdCalls[c].result.bounds
            IN  /\ ClaimNormalized(b.x)
                /\ ClaimNormalized(b.y)
                /\ ClaimNormalized(b.width)
                /\ ClaimNormalized(b.height)

\* C18 on the web plugin alone.
C18_WebBoundsNormalized ==
    fdPlatform = "web" => C18_BoundsNormalized

\* C19: once a dispose() call on the web plugin has resolved, the plugin
\* holds no model until an initialize or detectFace call made after that
\* dispose loads one: a model held was loaded by a call made after the
\* last dispose, whatever earlier calls were in flight.
C19_NoModelAfterDispose ==
    fdPlatform = "web" /\ model # "null" => fdCalls[loadedBy].born = disposals

\* The calls that have a model load in progress.
ClaimLoading(cs) ==
    {c \in 1..Len(cs) : cs[c].pc \in {"loadScripts", "blazefaceLoad"}}

ClaimInitializeMade ==
    /\ Len(fdCalls') = Len(fdCalls) + 1
    /\ fdCalls'[Len(fdCalls')].kind = "initialize"

\* C20: on the web plugin at most one model load is in progress at any
\* time, under every interleaving of initialize, detectFace and dispose.  An
\* initialize call made while the model is loaded returns success and one
\* made while an initialization is going on waits; neither starts a load;
\* the waiting call returns whether the model is set.
C20_AtMostOneLoad ==
    /\ [](Cardinality(ClaimLoading(fdCalls)) <= 1)
    /\ [][ClaimInitializeMade /\ (model # "null" \/ isInitializing) =>
            /\ ClaimLoading(fdCalls') = ClaimLoading(fdCalls)
            /\ model # "null" =>
                /\ fdCalls'[Len(fdCalls')].pc = "done"
                /\ fdCalls'[Len(fdCalls')].result = [status |-> "resolved", success |-> TRUE]
            /\ model = "null" => fdCalls'[Len(fdCalls')].pc = "waitForModel"]_vars
    /\ [][\A c \in InFlight :
            /\ fdCalls[c].kind = "initialize"
            /\ fdCalls[c].pc = "waitForModel"
            /\ fdCalls'[c].pc = "done"
            => fdCalls'[c].result = [status |-> "resolved", success |-> model' # "null"]]_vars

\* An initialize call waits while the load of another call is in progress.
C20_Witness ==
    \E c \in InFlight :
        /\ fdCalls[c].kind = "initialize"
        /\ fdCalls[c].pc = "waitForModel"
        /\ ClaimLoading(fdCalls) # {}

\* C28: in every result a detectFace call resolves with, on every platform,
\* faceDetected is false exactly when the guidance is no_face; the guidance
\* a calculator returned is neither no_face nor multiple_faces.
C28_UndetectedIffNoFace ==
    \A c \in DetectDone :
        LET r == fdCalls[c].result
        IN  r.status = "resolved" =>
                /\ r.faceDetected = FALSE <=> r.guidance = "no_face"
                /\ fdCalls[c].consulted =>
                    r.guidance \notin {"no_face", "multiple_faces"}

\* The detector returned no face and the call resolved with no_face.
C28_Witness ==
    \E c \in DetectDone :
        /\ fdCalls[c].found = 0
        /\ fdCalls[c].result.guidance = "no_face"
        /\ fdCalls[c].result.faceDetected = FALSE

(***************************************************************************)
(* Claims about background removal.                                        *)
(***************************************************************************)
ClaimFallback(r) ==
    /\ r.status = "resolved"
    /\ r.mask.kind = "ellipse"
    /\ r.faceDetected = FALSE

\* C12: when the platform's segmentation or vision request fails, the
\* plugin call and ImageProcessingService.removeBackground resolve with the
\* elliptically masked image and faceDetected false, and do not reject.
C12_RequestFailureFallsBack ==
    /\ rbpc \in {"settled", "returned"} /\ rbPlugin.failure = "request"
        => ClaimFallback(rbPlugin)
    /\ rbpc = "returned" /\ rbPlugin.failure = "request"
        => ClaimFallback(rbService)

\* The Android half of C12.
C12_AndroidRequestFailureFallsBack ==
    rbPlatform = "android" => C12_RequestFailureFallsBack


(***************************************************************************)
(* HomePage: the page component.  A call runs to its first await in one    *)
(* step; every timer that fires and every promise that settles is a step   *)
(* of its own.  The view children (video and canvas elements) exist and    *)
(* the video has dimensions once a stream is attached; a timer tick or a   *)
(* call that returns without changing a field is not a step.               *)
(***************************************************************************)
\* startLoop(retries = 20).
StartLoopRetries == 20
\* attachStream(retries = 5).
AttachRetries == 5
\* The startCamera calls, the detectFace requests and the captureAndProcess
\* invocations of a behaviour.
MaxCameras == 2
MaxRequests == 2
MaxCaptures == 1

\* The guidances a detectFace request resolves with.
ResultGuidances == {"hold_still"}

getGuidanceMessage(g) ==
    CASE g = "no_face"        -> "Position your face in the frame"
      [] g = "move_closer"    -> "Move closer"
      [] g = "move_back"      -> "Move back a little"
      [] g = "move_left"      -> "Move slightly left"
      [] g = "move_right"     -> "Move slightly right"
      [] g = "move_up"        -> "Move up a little"
      [] g = "move_down"      -> "Move down a little"
      [] g = "hold_still"     -> "Perfect! Hold still"
      [] g = "multiple_faces" -> "Only one face allowed"

\* What a promise rejects with: an Error carrying a message, or an Event
\* (img.onerror = reject).
Rejections ==
    {[isError |-> TRUE, message |-> "Could not get canvas context"],
     [isError |-> FALSE, message |-> ""]}

\* The entry of cameras made by a startCamera call.
\*   pc       "native" (no web camera), "timeout" (setTimeout of startCamera
\*            pending), "getUserMedia", "failed", "attach" (a setTimeout of
\*            attachStream pending), "unattached", "metadata"
\*            (onloadedmetadata awaited), "play", "playFailed", "playing"
\*   retries  the retries argument of the pending attachStream call
\*   stream   the stream getUserMedia resolved with: "none", "live" or
\*            "stopped" (every track stopped)
\*   loop     the startFaceDetection call made when play() resolved: "none",
\*            "skipped" (detectionInterval was set), "waiting" (a setTimeout
\*            of startLoop pending), "interval" (its interval timer is
\*            live), "cleared" (clearInterval ran on it), "gaveUp"
\*   loopRetries  the retries argument of the pending startLoop call (0 when
\*            none is pending)
\*   checks   history: the checks of a chain of startLoop calls that found
\*            the detection not ready (0 once the chain has set its interval)
\*   stopped  history: stopWebCamera has run since this startCamera call
NewCamera(pc) ==
    [pc |-> pc, retries |-> 0, stream |-> "none", loop |-> "none",
     loopRetries |-> 0, checks |-> 0, stopped |-> FALSE]

others == <<gvars, cvars, fvars, rvars, tvars>>

\* The state after the constructor: the fields hold their initializers and
\* initializeFaceDetection has run to its await.
HomePageInit ==
    /\ FaceDetectionIdle
    /\ RemovalIdle
    /\ TwiceIdle
    /\ CompressIdle
    /\ face = [x |-> 0, y |-> 0, width |-> 0, height |-> 0]
    /\ oval = PageOval
    /\ platform = "none"
    /\ guidance = "none"
    /\ gpc = "idle"
    /\ hpc = "constructed"
    /\ hpPlatform \in {"web", "native"}
    /\ hp = [processedImage |-> 0,          \* 0: null, c: the result of capture c
             isProcessing |-> FALSE,
             processingStep |-> "",
             isCameraActive |-> FALSE,
             isWebCameraActive |-> FALSE,
             mediaStream |-> 0,             \* 0: null, k: the stream of camera k
             faceGuidance |-> "no_face",
             guidanceMessage |-> "Initializing...",
             faceDetectionReady |-> FALSE,
             isDetecting |-> FALSE,
             detectionInterval |-> 0]       \* 0: null, k: the interval of camera k
    /\ initialize = "pending"
    /\ cameras = << >>
    /\ requests = << >>
    /\ captures = << >>

\* initializeFaceDetection after its await: success, {success: false}, or a
\* rejection.
InitializeSettled ==
    /\ initialize = "pending"
    /\ \E outcome \in {"success", "failure", "rejected"} :
        /\ initialize' = outcome
        /\ hp' = [hp EXCEPT
                    !.faceDetectionReady = (outcome = "success"),
                    !.guidanceMessage =
                        IF outcome = "success"
                        THEN "Position your face in the frame"
                        ELSE "Face detection unavailable"]
    /\ UNCHANGED <<hpc, hpPlatform, cameras, requests, captures, others>>

\* startCamera(), on the fields.
startCamera(p) ==
    [p EXCEPT !.isCameraActive = TRUE,
              !.processedImage = 0,
              !.faceGuidance = "no_face",
              !.guidanceMessage = IF p.faceDetectionReady
                                  THEN "Position your face in the frame"
                                  ELSE "Initializing..."]

\* stopFaceDetection(), on the fields.
stopFaceDetection(p) ==
    [p EXCEPT !.detectionInterval = 0, !.isDetecting = FALSE]

\* stopWebCamera(): the fields and the cameras after it.  clearInterval
\* ends the timer detectionInterval refers to, track.stop() ends the tracks
\* of the stream mediaStream refers to.
stopWebCamera(p, cs) ==
    [hp |-> [stopFaceDetection(p) EXCEPT !.mediaStream = 0,
                                         !.isWebCameraActive = FALSE],
     cameras |->
        [k \in DOMAIN cs |->
            [cs[k] EXCEPT
                !.loop = IF k = p.detectionInterval THEN "cleared" ELSE @,
                !.stream = IF k = p.mediaStream THEN "stopped" ELSE @,
                !.stopped = TRUE]]]

\* A startLoop that sets the interval without looking at faceDetectionReady.
startLoopUnchecked(p, cam, k, retries) ==
    [hp |-> [p EXCEPT !.detectionInterval = k],
     camera |-> [cam EXCEPT !.loop = "interval", !.loopRetries = 0, !.checks = 0]]

\* startLoop(retries), called for camera k: the fields and the camera after.
startLoop(p, cam, k, retries) ==
    IF p.faceDetectionReady
    THEN [hp |-> [p EXCEPT !.detectionInterval = k],
          camera |-> [cam EXCEPT !.loop = "interval", !.loopRetries = 0,
                                 !.checks = 0]]
    ELSE IF retries > 0
    THEN [hp |-> p,
          camera |-> [cam EXCEPT !.loop = "waiting", !.loopRetries = retries - 1,
                                 !.checks = @ + 1]]
    ELSE [hp |-> [p EXCEPT !.guidanceMessage = "Position your face in the frame"],
          camera |-> [cam EXCEPT !.loop = "gaveUp", !.loopRetries = 0,
                                 !.checks = @ + 1]]

NgOnInit ==
    /\ hpc = "constructed"
    /\ hpc' = "active"
    /\ hp' = startCamera(hp)
    /\ cameras' = Append(cameras,
                    NewCamera(IF hpPlatform = "web" THEN "timeout" ELSE "native"))
    /\ UNCHANGED <<hpPlatform, initialize, requests, captures, others>>

Retake ==
    /\ hpc = "active"
    /\ Len(cameras) < MaxCameras
    /\ hp' = startCamera([hp EXCEPT !.processedImage = 0])
    /\ cameras' = Append(cameras,
                    NewCamera(IF hpPlatform = "web" THEN "timeout" ELSE "native"))
    /\ UNCHANGED <<hpc, hpPlatform, initialize, requests, captures, others>>

\* The setTimeout of startCamera fires: startWebCamera up to its await.
StartWebCamera(k) ==
    /\ cameras[k].pc = "timeout"
    /\ cameras' = [cameras EXCEPT ![k].pc = "getUserMedia"]
    /\ UNCHANGED <<hpc, hpPlatform, hp, initialize, requests, captures, others>>

\* getUserMedia settles: startWebCamera after its await, or its catch.
GetUserMediaSettled(k) ==
    /\ cameras[k].pc = "getUserMedia"
    /\ \E granted \in BOOLEAN :
        IF granted
        THEN /\ hp' = [hp EXCEPT !.mediaStream = k, !.isWebCameraActive = TRUE]
             /\ cameras' = [cameras EXCEPT ![k].pc = "attach",
                                           ![k].retries = AttachRetries,
                                           ![k].stream = "live"]
        ELSE /\ hp' = [hp EXCEPT !.isWebCameraActive = FALSE,
                                 !.isCameraActive = FALSE]
             /\ cameras' = [cameras EXCEPT ![k].pc = "failed"]
    /\ UNCHANGED <<hpc, hpPlatform, initialize, requests, captures, others>>

\* A setTimeout of attachStream fires.
AttachStream(k) ==
    /\ cameras[k].pc = "attach"
    /\ cameras' = [cameras EXCEPT
                    ![k].pc = IF hp.mediaStream # 0 THEN "metadata"
                              ELSE IF cameras[k].retries > 0 THEN "attach"
                              ELSE "unattached",
                    ![k].retries = IF hp.mediaStream = 0 /\ @ > 0 THEN @ - 1 ELSE 0]
    /\ UNCHANGED <<hpc, hpPlatform, hp, initialize, requests, captures, others>>

\* video.onloadedmetadata: play() is called.
LoadedMetadata(k) ==
    /\ cameras[k].pc = "metadata"
    /\ cameras' = [cameras EXCEPT ![k].pc = "play"]
    /\ UNCHANGED <<hpc, hpPlatform, hp, initialize, requests, captures, others>>

\* play() settles; when it resolves, startFaceDetection() runs.
PlaySettled(k) ==
    /\ cameras[k].pc = "play"
    /\ \E played \in BOOLEAN :
        IF ~played
        THEN /\ cameras' = [cameras EXCEPT ![k].pc = "playFailed"]
             /\ hp' = hp
        ELSE IF hp.detectionInterval # 0
        THEN /\ cameras' = [cameras EXCEPT ![k].pc = "playing",
                                           ![k].loop = "skipped"]
             /\ hp' = hp
        ELSE LET s == startLoop(hp, [cameras[k] EXCEPT !.pc = "playing"], k,
                                StartLoopRetries)
             IN  /\ cameras' = [cameras EXCEPT ![k] = s.camera]
                 /\ hp' = s.hp
    /\ UNCHANGED <<hpc, hpPlatform, initialize, requests, captures, others>>

\* A setTimeout of startLoop fires.
StartLoop(k) ==
    /\ cameras[k].loop = "waiting"
    /\ LET s == startLoop(hp, cameras[k], k, cameras[k].loopRetries)
       IN  /\ cameras' = [cameras EXCEPT ![k] = s.camera]
           /\ hp' = s.hp
    /\ UNCHANGED <<hpc, hpPlatform, initialize, requests, captures, others>>

\* The interval timer of camera k ticks and detectFaceInFrame runs to its
\* await.  History: ready and active are faceDetectionReady and
\* isWebCameraActive at that moment, camera is the last startCamera call
\* made by then; appliedTo and afterStop are set when the result is applied.
IntervalTick(k) ==
    /\ cameras[k].loop = "interval"
    /\ hp.isWebCameraActive /\ ~hp.isDetecting
    /\ Len(requests) < MaxRequests
    /\ hp' = [hp EXCEPT !.isDetecting = TRUE]
    /\ requests' = Append(requests,
                    [status |-> "pending", camera |-> Len(cameras),
                     ready |-> hp.faceDetectionReady,
                     active |-> hp.isWebCameraActive,
                     appliedTo |-> 0, afterStop |-> FALSE])
    /\ UNCHANGED <<hpc, hpPlatform, initialize, cameras, captures, others>>

\* detectFace settles: detectFaceInFrame after its await.
DetectFaceSettled(r) ==
    /\ requests[r].status = "pending"
    /\ \E outcome \in ResultGuidances \cup {"rejected"} :
        /\ requests' = [requests EXCEPT
                          ![r].status = IF outcome = "rejected" THEN "rejected"
                                        ELSE "resolved",
                          ![r].appliedTo = IF outcome = "rejected" THEN 0
                                           ELSE Len(cameras),
                          ![r].afterStop = outcome # "rejected"
                                           /\ cameras[Len(cameras)].stopped]
        /\ hp' = IF outcome = "rejected"
                 THEN [hp EXCEPT !.isDetecting = FALSE]
                 ELSE [hp EXCEPT !.faceGuidance = outcome,
                                 !.guidanceMessage = getGuidanceMessage(outcome),
                                 !.isDetecting = FALSE]
    /\ UNCHANGED <<hpc, hpPlatform, initialize, cameras, captures, others>>

\* The catch and finally blocks of captureAndProcess, on the fields.
captureFailed(p, reason) ==
    [p EXCEPT !.processingStep =
                  "Error: " \o (IF reason.isError THEN reason.message
                                ELSE "Unknown error"),
              !.isCameraActive = FALSE,
              !.isProcessing = FALSE]

\* The statements between the capture and the cropImage call.
captureTaken(p) ==
    [p EXCEPT !.isCameraActive = FALSE,
              !.isProcessing = TRUE,
              !.processingStep = "Cropping..."]

\* What is known of an invocation when it ends: the fields then, and whether
\* its last step left processedImage as it was.
Ended(p, q) ==
    [isProcessing |-> q.isProcessing, isCameraActive |-> q.isCameraActive,
     processingStep |-> q.processingStep,
     unchanged |-> q.processedImage = p.processedImage]

NotEnded == [none |-> TRUE]

\* captureAndProcess() up to its first await.  With the web camera active
\* the frame is drawn on the canvas (no 2D context: return) and the camera
\* is stopped; else the Camera plugin is called.
\*   pc    "takePicture", "imageLoad", "imageError" (the image signalled an
\*         error, which nothing listens to), "cropImage", "resizeImage",
\*         "compressImage", "returned", "failed", "processed"
\*   done  history: the steps that have succeeded, in order
\*   end   history: Ended at the step the invocation ended with
CaptureAndProcess ==
    /\ hpc = "active"
    /\ Len(captures) < MaxCaptures
    /\ IF hp.isWebCameraActive
       THEN \E ctx \in BOOLEAN :
            IF ctx
            THEN LET s == stopWebCamera(hp, cameras)
                 IN  /\ hp' = captureTaken(s.hp)
                     /\ cameras' = s.cameras
                     /\ captures' = Append(captures,
                            [pc |-> "cropImage", done |-> <<"capture">>,
                             end |-> NotEnded])
            ELSE /\ hp' = [hp EXCEPT !.isProcessing = FALSE]
                 /\ cameras' = cameras
                 /\ captures' = Append(captures,
                        [pc |-> "returned", done |-> << >>,
                         end |-> Ended(hp, hp')])
       ELSE /\ hp' = hp
            /\ cameras' = cameras
            /\ captures' = Append(captures,
                    [pc |-> "takePicture", done |-> << >>, end |-> NotEnded])
    /\ UNCHANGED <<hpc, hpPlatform, initialize, requests, others>>

\* Camera.getPhoto settles.
TakePictureSettled(c) ==
    /\ captures[c].pc = "takePicture"
    /\ \/ /\ hp' = hp
          /\ captures' = [captures EXCEPT ![c].pc = "imageLoad"]
       \/ \E reason \in Rejections :
          /\ hp' = captureFailed(hp, reason)
          /\ captures' = [captures EXCEPT ![c].pc = "failed",
                                          ![c].end = Ended(hp, hp')]
    /\ UNCHANGED <<hpc, hpPlatform, initialize, cameras, requests, others>>

\* The image given the picture signals load or error.  Only onload is set.
ImageLoadSignalled(c) ==
    /\ captures[c].pc = "imageLoad"
    /\ \E loaded \in BOOLEAN :
        IF loaded
        THEN /\ hp' = captureTaken(hp)
             /\ captures' = [captures EXCEPT ![c].pc = "cropImage",
                                             ![c].done = <<"capture">>]
        ELSE /\ hp' = hp
             /\ captures' = [captures EXCEPT ![c].pc = "imageError"]
    /\ UNCHANGED <<hpc, hpPlatform, initialize, cameras, requests, others>>

CropSettled(c) ==
    /\ captures[c].pc = "cropImage"
    /\ \/ /\ hp' = [hp EXCEPT !.processingStep = "Resizing..."]
          /\ captures' = [captures EXCEPT ![c].pc = "resizeImage",
                                          ![c].done = Append(@, "crop")]
       \/ \E reason \in Rejections :
          /\ hp' = captureFailed(hp, reason)
          /\ captures' = [captures EXCEPT ![c].pc = "failed",
                                          ![c].end = Ended(hp, hp')]
    /\ UNCHANGED <<hpc, hpPlatform, initialize, cameras, requests, others>>

ResizeSettled(c) ==
    /\ captures[c].pc = "resizeImage"
    /\ \/ /\ hp' = [hp EXCEPT !.processingStep = "Compressing to ~10KB..."]
          /\ captures' = [captures EXCEPT ![c].pc = "compressImage",
                                          ![c].done = Append(@, "resize")]
       \/ \E reason \in Rejections :
          /\ hp' = captureFailed(hp, reason)
          /\ captures' = [captures EXCEPT ![c].pc = "failed",
                                          ![c].end = Ended(hp, hp')]
    /\ UNCHANGED <<hpc, hpPlatform, initialize, cameras, requests, others>>

CompressSettled(c) ==
    /\ captures[c].pc = "compressImage"
    /\ \/ /\ hp' = [hp EXCEPT !.processedImage = c,
                              !.processingStep = "",
                              !.isProcessing = FALSE]
          /\ captures' = [captures EXCEPT ![c].pc = "processed",
                                          ![c].done = Append(@, "compress"),
                                          ![c].end = Ended(hp, hp')]
       \/ \E reason \in Rejections :
          /\ hp' = captureFailed(hp, reason)
          /\ captures' = [captures EXCEPT ![c].pc = "failed",
                                          ![c].end = Ended(hp, hp')]
    /\ UNCHANGED <<hpc, hpPlatform, initialize, cameras, requests, others>>

\* ngOnDestroy(): stopWebCamera, stopFaceDetection, FaceDetection.dispose().
NgOnDestroy ==
    /\ hpc = "active"
    /\ LET s == stopWebCamera(hp, cameras)
       IN  /\ hp' = stopFaceDetection(s.hp)
           /\ cameras' = s.cameras
    /\ hpc' = "destroyed"
    /\ UNCHANGED <<hpPlatform, initialize, requests, captures, others>>

HomePageNext ==
    \/ InitializeSettled
    \/ NgOnInit
    \/ Retake
    \/ \E k \in DOMAIN cameras : StartWebCamera(k)
    \/ \E k \in DOMAIN cameras : GetUserMediaSettled(k)
    \/ \E k \in DOMAIN cameras : AttachStream(k)
    \/ \E k \in DOMAIN cameras : LoadedMetadata(k)
    \/ \E k \in DOMAIN cameras : PlaySettled(k)
    \/ \E k \in DOMAIN cameras : StartLoop(k)
    \/ \E k \in DOMAIN cameras : IntervalTick(k)
    \/ \E r \in DOMAIN requests : DetectFaceSettled(r)
    \/ CaptureAndProcess
    \/ \E c \in DOMAIN captures : TakePictureSettled(c)
    \/ \E c \in DOMAIN captures : ImageLoadSignalled(c)
    \/ \E c \in DOMAIN captures : CropSettled(c)
    \/ \E c \in DOMAIN captures : ResizeSettled(c)
    \/ \E c \in DOMAIN captures : CompressSettled(c)
    \/ NgOnDestroy

SpecHomePage == HomePageInit /\ [][HomePageNext]_vars

\* Every call the page awaits in captureAndProcess and every image it loads
\* signals success or failure.
FairSpecHomePage ==
    /\ SpecHomePage
    /\ \A c \in 1..MaxCaptures :
        /\ WF_vars(c \in DOMAIN captures /\ TakePictureSettled(c))
        /\ WF_vars(c \in DOMAIN captures /\ ImageLoadSignalled(c))
        /\ WF_vars(c \in DOMAIN captures /\ CropSettled(c))
        /\ WF_vars(c \in DOMAIN captures /\ ResizeSettled(c))
        /\ WF_vars(c \in DOMAIN captures /\ CompressSettled(c))


(***************************************************************************)
(* Claims about HomePage.                                                  *)
(***************************************************************************)
\* C21: the detection loop issues no detectFace request before
\* initialization has reported success nor while the web camera is
\* inactive: every request was issued with faceDetectionReady and
\* isWebCameraActive true, after initialize() resolved with success, and an
\* interval timer exists only with faceDetectionReady true.  A chain of
\* startLoop calls gives up only after the initial check and 20 retries have
\* all found the detection not ready, and then has set no interval.
C21_DetectionGated ==
    /\ \A r \in DOMAIN requests :
        requests[r].ready /\ requests[r].active /\ initialize = "success"
    /\ \A k \in DOMAIN cameras :
        /\ cameras[k].loop = "interval" =>
              hp.faceDetectionReady /\ initialize = "success"
        /\ cameras[k].loop = "waiting" =>
              /\ cameras[k].checks = StartLoopRetries - cameras[k].loopRetries
              /\ cameras[k].checks \in 1..StartLoopRetries
        /\ cameras[k].loop = "gaveUp" =>
              /\ cameras[k].checks = StartLoopRetries + 1
              /\ hp.detectionInterval # k

\* One chain has given up after its 21 checks and a request has been issued
\* by the interval of another.
C21_Witness ==
    /\ \E k \in DOMAIN cameras : cameras[k].loop = "gaveUp"
    /\ \E r \in DOMAIN requests : requests[r].status = "pending"


\* The detectFace requests that have not settled.
InFlightRequests == {r \in DOMAIN requests : requests[r].status = "pending"}

\* C22: at most one detectFace request issued by detectFaceInFrame is in
\* flight at any time, and isDetecting is true exactly while one is.
C22_AtMostOneInFlight ==
    /\ Cardinality(InFlightRequests) <= 1
    /\ hp.isDetecting <=> InFlightRequests # {}


\* C23: once stopWebCamera has run, no face-detection result modifies
\* faceGuidance and guidanceMessage until the camera is started again, and
\* after a restart only the results of detections started after that restart
\* modify them: every result that was applied was applied before any
\* stopWebCamera following the last startCamera call, and its request was
\* issued after that call.
C23_StaleResultsDropped ==
    \A r \in DOMAIN requests :
        requests[r].status = "resolved" =>
            /\ ~requests[r].afterStop
            /\ requests[r].appliedTo = requests[r].camera


\* C24: after ngOnDestroy or stopWebCamera has run, and as long as
\* startCamera is not called again, the component holds no live camera
\* stream: mediaStream is null, every stream acquired has had its tracks
\* stopped and isWebCameraActive is false.
C24_NoStreamAfterStop ==
    (cameras # << >> /\ cameras[Len(cameras)].stopped) =>
        /\ hp.mediaStream = 0
        /\ \A k \in DOMAIN cameras : cameras[k].stream # "live"
        /\ ~hp.isWebCameraActive


\* The cameras whose interval timer is live.
LiveIntervals == {k \in DOMAIN cameras : cameras[k].loop = "interval"}

\* C25: at most one detection interval timer is live at any time and
\* detectionInterval refers to it; with detectionInterval null (after
\* stopFaceDetection, until startFaceDetection sets it again) no interval
\* timer is live.
C25_OneIntervalHeld ==
    /\ Cardinality(LiveIntervals) <= 1
    /\ \A k \in LiveIntervals : hp.detectionInterval = k
    /\ hp.detectionInterval # 0 => hp.detectionInterval \in LiveIntervals


\* The steps a captureAndProcess invocation ends with.
EndedCaptures ==
    {c \in DOMAIN captures : captures[c].pc \in {"returned", "failed", "processed"}}

\* C26: every captureAndProcess invocation eventually settles, with
\* isProcessing false, provided that every call it awaits and every image it
\* loads signals success or failure.
C26_CaptureSettles ==
    \A c \in 1..MaxCaptures :
        (c \in DOMAIN captures)
            ~> (c \in EndedCaptures /\ ~captures[c].end.isProcessing)


\* An invocation ended in the error state: not processing, camera inactive,
\* an error step shown, processedImage as it was.
endedInError(c) ==
    /\ captures[c].end # NotEnded
    /\ ~captures[c].end.isProcessing
    /\ ~captures[c].end.isCameraActive
    /\ SubSeq(captures[c].end.processingStep, 1, 7) = "Error: "
    /\ captures[c].end.unchanged

\* processedImage is assigned, and processingStep cleared, by an invocation
\* in which the capture, crop, resize and compress succeeded, in that order.
assignedInOrder ==
    \A c \in DOMAIN captures :
        (captures[c].pc = "processed" \/ hp.processedImage = c) =>
            captures[c].done = <<"capture", "crop", "resize", "compress">>

\* C27: an invocation of captureAndProcess in which the capture, the crop,
\* the resize or the compression fails ends with isProcessing false,
\* isCameraActive false, a processingStep starting with "Error: " and
\* processedImage unchanged; processedImage is assigned and processingStep
\* cleared only after crop, resize and compress have succeeded, in order.
C27_FailureEndsInError ==
    /\ \A c \in DOMAIN captures :
        captures[c].pc \in {"returned", "imageError", "failed"} => endedInError(c)
    /\ assignedInOrder

\* The part of C27 that holds: an invocation in which an awaited call
\* rejects ends in the error state, and the assignment comes last.
C27_RejectionEndsInError ==
    /\ \A c \in DOMAIN captures : captures[c].pc = "failed" => endedInError(c)
    /\ assignedInOrder

====
